---- MODULE Spec2Model ----
(***************************************************************************)
(* Serving layer of backend/servers/ultra_optimized_server.py:             *)
(*   IntelligentBatchProcessor (the batch scheduler) and                   *)
(*   UltraAdvancedCache (the content cache).                               *)
(*                                                                         *)
(* Two specifications share the variables:                                 *)
(*   SpecSched  the scheduler: request threads calling submit_request,     *)
(*              callers cancelling their futures, collector threads        *)
(*              running _process_batches;                                  *)
(*   SpecCache  the cache: get / set / clear and the passing of time.      *)
(* Time is counted in milliseconds for the scheduler and in seconds for    *)
(* the cache.                                                              *)
(***************************************************************************)
EXTENDS Integers, Sequences, FiniteSets, TLC

(***************************************************************************)
(* Bounds of the model.                                                    *)
(***************************************************************************)
\* number of requests ever submitted (one request thread each)
NumRequests == 2
\* IntelligentBatchProcessor(batch_size=...): the model's scheduler is built
\* with a batch size below the number of requests, so that batches fill up
batch_size == 2

Requests == 1..NumRequests

(***************************************************************************)
(* Program constants.                                                      *)
(***************************************************************************)
\* RequestPriority
LOW == 1
NORMAL == 2
HIGH == 3
CRITICAL == 4
\* IntelligentBatchProcessor(timeout=...), in ms: two get timeouts
timeout == 30
\* queue.get(timeout=0.015), in ms
GET_TIMEOUT == 15

\* priorities and roles the request threads draw from
Priorities == {NORMAL, CRITICAL}
Roles == {"student", "teacher"}

\* deadline = time.time() + (self.timeout * 1.5), as a span from the start of
\* the collection
Deadline == (timeout * 3) \div 2

VARIABLES
  \* ---- requests and their threads ----
  spc,        \* spc[r]: position of request r's thread in submit_request
  rprio,      \* rprio[r]: request.priority (0 before the request exists)
  rrole,      \* rrole[r]: request.role ("" before the request exists)
  fut,        \* fut[r]: request.future, [state, kind, of]
  \* ---- IntelligentBatchProcessor ----
  queue,      \* self.queue: the requests in the PriorityQueue
  processing, \* self.processing
  processor_thread, \* self.processor_thread: 0 is None, else a thread id
  tstate,     \* tstate[t]: "none" | "new" | "run": threading.Thread t
  \* ---- a collector thread's locals ----
  cpc,        \* cpc[t]: position of thread t in _process_batches
  batch,      \* batch[t]: the list built by _collect_batch
  elapsed,    \* elapsed[t]: time.time() - (start of the collection), ms
  pos,        \* pos[t]: index of the request being handled (dispatch order
              \*         in _process_batch, batch order in its handler)
  exc,        \* exc[t]: the exception caught by an except clause, or NoExc
  \* ---- history (not program state) ----
  batched,    \* the requests appended to a batch, by any collector, in
              \* the order of the appends
  processed,  \* <<r, ok>>: request r was passed to _process_single_request,
              \* which returned (ok) or raised (~ok)
  discarded   \* requests whose future was cancelled when queue.get
              \* returned them

schedVars == <<spc, rprio, rrole, fut, queue, processing, processor_thread,
               tstate, cpc, batch, elapsed, pos, exc, batched, processed,
               discarded>>

VARIABLES
  \* ---- UltraAdvancedCache ----
  cache,        \* self.cache: key -> stored value
  access_times, \* self.access_times: key -> time of the last set or hit
  access_order, \* the keys of self.access_times in the dict's (insertion)
                \* order, which is the order min() goes through them
  hit_counts,   \* self.hit_counts: key -> number of hits
  now,          \* time.time(), in seconds
  last,         \* the last cache operation: its key, the value get
                \* returned, the return statement of get that was taken,
                \* and the entries set removed through _evict_lru (key,
                \* access time and hit count)
  \* ---- history (not program state) ----
  written       \* written[k]: the value, the time and the effective ttl of
                \* the most recent set of k, for the keys that have not
                \* been removed since (kept by the specifications that
                \* record the history, empty under the others)

cacheVars == <<cache, access_times, access_order, hit_counts, now, last,
               written>>

VARIABLES
  \* ---- the threads that call the cache, statement by statement ----
  lock,         \* self._lock of the cache: the thread that holds it, or ""
  th            \* th[t]: where thread t is in get, set or clear (pc), the
                \* key and value it was called with, the keys it has still
                \* to pass to _remove_key (todo) and where it goes on after
                \* that (after)

lockVars == <<lock, th>>

VARIABLES
  \* ---- UltraConversationState ----
  conversations,      \* self.conversations: session id -> list of messages
  last_access,        \* self.last_access: session id -> time
  session_order,      \* the keys of self.last_access in the dict's order,
                      \* which is the order sorted() leaves equal times in
  conversation_stats, \* self.conversation_stats: session id ->
                      \* message_count, total_chars
  clock,              \* time.time(), in units of max_age
  \* ---- the callers of the store ----
  opened,             \* the number of session ids used so far: a session id
                      \* that is new is the next one
  clast               \* the last call of the store: its name (op), its
                      \* session id (s), the list it returned to the
                      \* caller (ret) and the number of sessions it removed,
                      \* which the cleanups log (removed)

storeVars == <<conversations, last_access, session_order, conversation_stats,
               clock>>
convVars == <<storeVars, opened, clast>>

VARIABLES
  \* ---- the threads that call add_exchange, statement by statement ----
  store_lock,   \* self._lock of the store: the thread that holds it, or ""
  sth,          \* sth[t]: where thread t is in add_exchange (pc), the lengths
                \* it was called with (e), the number of its call (ex) and
                \* the local variable conversation of _intelligent_truncate
                \* (kept)
  calls         \* the number of add_exchange calls that have started

storeLockVars == <<store_lock, sth, calls>>

VARIABLES
  \* ---- AdvancedMemoryManager ----
  memory_history, \* self.memory_history: the samples (t, p) kept
  mtime,          \* time.time(), in seconds
  mon,            \* the monitor_memory call that runs or ran last: where it
                  \* is (pc), who called it (caller), the sample's percent,
                  \* the callbacks it has still to run (todo) and has run
                  \* (ran), its calls of content_cache.clear (cleared) and of
                  \* conversation_state.emergency_cleanup (emergency), and
                  \* stats["trend"], stats["cleanup_triggered"] or the
                  \* exception it raised
  \* ---- ultra_chat ----
  chat            \* the request that runs or ran last: where it is (pc),
                  \* its question, whether it uses resources, the HTTP
                  \* status, the answer and the calls of
                  \* model_manager.generate_response (generated)

monVars == <<memory_history, mtime, mon, chat>>

VARIABLES
  \* ---- the arguments the objects were built with ----
  self_batch_size \* self.batch_size of the batch processor; no method
                  \* assigns it after __init__

configVars == <<self_batch_size>>

VARIABLES
  \* ---- the threads of the server and the locks of its objects ----
  owner,          \* owner[o]: the thread that holds the _lock of object o
                  \* (content_cache, conversation_state, model_manager), or
                  \* ""
  tth             \* tth[t]: what thread t has still to do in its handler
                  \* or loop (todo: the with blocks it enters and leaves,
                  \* the waits on the queue, the calls without a lock) and
                  \* the methods whose with block it is inside (inside)

threadVars == <<owner, tth>>

vars == <<schedVars, cacheVars, lockVars, convVars, storeLockVars, monVars,
          threadVars, configVars>>

\* what an action of one component leaves alone; the actions of the cache
\* and of the store are also steps of monitor_memory and of ultra_chat,
\* and say nothing of monVars
nonSchedVars == <<cacheVars, lockVars, convVars, storeLockVars, monVars,
                  threadVars, configVars>>
nonCacheVars == <<schedVars, lockVars, convVars, storeLockVars, threadVars,
                  configVars>>
nonLockVars == <<now, last, written, schedVars, convVars, storeLockVars,
                 monVars, threadVars, configVars>>
nonConvVars == <<schedVars, cacheVars, lockVars, storeLockVars, threadVars,
                 configVars>>
nonStoreVars == <<schedVars, cacheVars, lockVars, clock, opened, clast,
                  monVars, threadVars, configVars>>
nonMonVars == <<schedVars, lockVars, storeLockVars, threadVars, configVars>>
nonThreadVars == <<schedVars, cacheVars, lockVars, convVars, storeLockVars,
                   monVars, configVars>>

\* the thread started by request r's submit_request call is thread r
Threads == Requests

(***************************************************************************)
(* concurrent.futures.Future, as far as the scheduler and its callers use  *)
(* it.  A future is PENDING, CANCELLED or FINISHED; a FINISHED future      *)
(* holds a result or an exception.  kind/of say which: the result         *)
(* ("result") or the exception ("ProcError") of processing request `of`,   *)
(* or the InvalidStateError raised when resolving the future of `of`.      *)
(***************************************************************************)
NoVal == [kind |-> "none", of |-> 0]
NoExc == NoVal
NewFuture == [state |-> "PENDING", val |-> NoVal]

\* Future.cancelled()
cancelled(f) == f.state = "CANCELLED"
\* Future.done()
done(f) == f.state \in {"CANCELLED", "FINISHED"}

\* Future.set_result(v) / Future.set_exception(e) raise InvalidStateError on
\* a future that is cancelled or finished, and leave it as it is
set_overwrite(f, v) == [state |-> "FINISHED", val |-> v]
set_raises(f) == done(f)
set_value(f, v) == IF set_raises(f) THEN f ELSE [state |-> "FINISHED", val |-> v]

\* Future.cancel(): a pending future becomes cancelled (the scheduler never
\* marks a future running); a finished one is left alone
cancel(f) == IF f.state = "PENDING" THEN [f EXCEPT !.state = "CANCELLED"] ELSE f

Result(r) == [kind |-> "result", of |-> r]
ProcError(r) == [kind |-> "ProcError", of |-> r]
InvalidStateError(r) == [kind |-> "InvalidStateError", of |-> r]

(***************************************************************************)
(* The priority queue.  submit_request puts (5 - priority.value,           *)
(* request.timestamp, request); queue.get returns the smallest tuple.      *)
(* Request r is created at time r, so request.timestamp = r.               *)
(***************************************************************************)
timestamp(r) == r
priority_value_swapped(r) == rprio[r]
priority_value(r) == 5 - rprio[r]

\* (p1, t1, _) < (p2, t2, _) on tuples
TupleLess(a, b) ==
  \/ priority_value(a) < priority_value(b)
  \/ priority_value(a) = priority_value(b) /\ timestamp(a) < timestamp(b)

\* the request queue.get returns
QueueHeadFifo(q) == CHOOSE r \in q : \A o \in q \ {r} : timestamp(r) < timestamp(o)
QueueHead(q) == CHOOSE r \in q : \A o \in q \ {r} : TupleLess(r, o)

(***************************************************************************)
(* Initial state: batch_processor = IntelligentBatchProcessor(), no        *)
(* request made yet.                                                       *)
(***************************************************************************)
\* IntelligentBatchProcessor(batch_size=size), for the requests rs and
\* their threads
InitProcessor(rs, size) ==
  /\ spc = [r \in rs |-> "idle"]
  /\ rprio = [r \in rs |-> 0]
  /\ rrole = [r \in rs |-> ""]
  /\ fut = [r \in rs |-> NewFuture]
  /\ queue = {}
  /\ self_batch_size = size
  /\ processing = FALSE
  /\ processor_thread = 0
  /\ tstate = [t \in rs |-> "none"]
  /\ cpc = [t \in rs |-> "none"]
  /\ batch = [t \in rs |-> <<>>]
  /\ elapsed = [t \in rs |-> 0]
  /\ pos = [t \in rs |-> 0]
  /\ exc = [t \in rs |-> NoExc]
  /\ batched = <<>>
  /\ processed = {}
  /\ discarded = {}

InitSched == InitProcessor(Requests, batch_size)

collectorVars == <<cpc, batch, elapsed, pos, exc>>
requestVars == <<rprio, rrole>>
processorVars == <<processing, processor_thread, tstate>>
historyVars == <<batched, processed, discarded>>

(***************************************************************************)
(* A request thread: builds BatchedRequest(..., future=Future(),           *)
(* timestamp=time.time()) and calls submit_request, which is not atomic:   *)
(* every line of submit_request and _start_processor is a step.            *)
(***************************************************************************)
\* the request threads inside submit_request
InFlight == {r \in Requests : spc[r] \notin {"idle", "return", "RuntimeError"}}

\* the caller creates the request; requests are numbered in creation order
CreateRequest(r) ==
  /\ spc[r] = "idle"
  /\ \A q \in Requests : q < r => spc[q] # "idle"
  /\ \E p \in Priorities, ro \in Roles :
       /\ rprio' = [rprio EXCEPT ![r] = p]
       /\ rrole' = [rrole EXCEPT ![r] = ro]
  /\ spc' = [spc EXCEPT ![r] = "put"]
  /\ UNCHANGED <<fut, queue, processorVars, collectorVars, historyVars,
                 nonSchedVars>>

\* submit_request: self.queue.put((priority_value, request.timestamp, request))
submit_request_put(r) ==
  /\ spc[r] = "put"
  /\ queue' = queue \cup {r}
  /\ spc' = [spc EXCEPT ![r] = "check"]
  /\ UNCHANGED <<requestVars, fut, processorVars, collectorVars, historyVars,
                 nonSchedVars>>

\* submit_request: if not self.processing: self._start_processor()
submit_request_check(r) ==
  /\ spc[r] = "check"
  /\ spc' = [spc EXCEPT ![r] = IF processing THEN "return" ELSE "alive"]
  /\ UNCHANGED <<requestVars, fut, queue, processorVars, collectorVars,
                 historyVars,
                 nonSchedVars>>

\* Thread.is_alive(): started and not ended
is_alive(t) == tstate[t] = "run"

\* _start_processor:
\*   if self.processor_thread and self.processor_thread.is_alive(): return
start_processor_alive(r) ==
  /\ spc[r] = "alive"
  /\ spc' = [spc EXCEPT ![r] =
               IF processor_thread # 0 /\ is_alive(processor_thread)
               THEN "return" ELSE "set_processing"]
  /\ UNCHANGED <<requestVars, fut, queue, processorVars, collectorVars,
                 historyVars,
                 nonSchedVars>>

\* _start_processor: self.processing = True
start_processor_set(r) ==
  /\ spc[r] = "set_processing"
  /\ processing' = TRUE
  /\ spc' = [spc EXCEPT ![r] = "new_thread"]
  /\ UNCHANGED <<requestVars, fut, queue, processor_thread, tstate,
                 collectorVars, historyVars,
                 nonSchedVars>>

\* _start_processor: self.processor_thread = threading.Thread(...)
start_processor_new(r) ==
  /\ spc[r] = "new_thread"
  /\ processor_thread' = r
  /\ tstate' = [tstate EXCEPT ![r] = "new"]
  /\ spc' = [spc EXCEPT ![r] = "start"]
  /\ UNCHANGED <<requestVars, fut, queue, processing, collectorVars,
                 historyVars,
                 nonSchedVars>>

\* _start_processor: self.processor_thread.start(); the attribute is read
\* again, so the thread started is the one self.processor_thread names now.
\* Starting a thread twice raises RuntimeError in the caller.
start_processor_start(r) ==
  /\ spc[r] = "start"
  /\ IF tstate[processor_thread] = "new"
     THEN /\ tstate' = [tstate EXCEPT ![processor_thread] = "run"]
          /\ cpc' = [cpc EXCEPT ![processor_thread] = "collect"]
          /\ spc' = [spc EXCEPT ![r] = "return"]
     ELSE /\ spc' = [spc EXCEPT ![r] = "RuntimeError"]
          /\ UNCHANGED <<tstate, cpc,
                 nonSchedVars>>
  /\ UNCHANGED <<requestVars, fut, queue, processing, processor_thread,
                 batch, elapsed, pos, exc, historyVars,
                 nonSchedVars>>

\* the caller gives up on its request: request.future.cancel()
Cancel(r) ==
  /\ spc[r] # "idle"
  /\ fut[r].state = "PENDING"
  /\ fut' = [fut EXCEPT ![r] = cancel(fut[r])]
  /\ UNCHANGED <<spc, requestVars, queue, processorVars, collectorVars,
                 historyVars,
                 nonSchedVars>>

(***************************************************************************)
(* A collector thread t: _process_batches.  self.processing is never set   *)
(* back to False while the server runs, so the loop does not end.          *)
(***************************************************************************)
\* back to the top of the loop of _process_batches: batch = [], a new deadline
NextCollection(t) ==
  /\ cpc' = [cpc EXCEPT ![t] = "collect"]
  /\ batch' = [batch EXCEPT ![t] = <<>>]
  /\ elapsed' = [elapsed EXCEPT ![t] = 0]
  /\ pos' = [pos EXCEPT ![t] = 0]
  /\ exc' = [exc EXCEPT ![t] = NoExc]

\* _collect_batch hands its batch to _process_batch
StartDispatch(t, b) ==
  /\ cpc' = [cpc EXCEPT ![t] = "dispatch"]
  /\ batch' = [batch EXCEPT ![t] = b]
  /\ pos' = [pos EXCEPT ![t] = 1]
  /\ exc' = exc

\* while len(batch) < self.batch_size and time.time() < deadline
collecting(t) == Len(batch[t]) < self_batch_size /\ elapsed[t] < Deadline

\* if not request.future.cancelled(): batch.append(request)
append_always(b, r) == Append(b, r)
append_if_live(b, r) == IF cancelled(fut[r]) THEN b ELSE Append(b, r)

\* the queue after queue.get has returned r
queue_peek(q, r) == q
queue_get(q, r) == q \ {r}

\* _collect_batch: queue.get returns a request (at once, or after waiting
\* for it up to the get timeout)
collect_batch_get(t) ==
  /\ cpc[t] = "collect"
  /\ collecting(t)
  /\ queue # {}
  /\ LET r == QueueHead(queue) IN
       /\ queue' = queue_get(queue, r)
       /\ batch' = [batch EXCEPT ![t] = append_if_live(batch[t], r)]
       /\ batched' = append_if_live(batched, r)
       /\ discarded' = IF cancelled(fut[r]) THEN discarded \cup {r}
                       ELSE discarded
  /\ \E w \in {0, GET_TIMEOUT} : elapsed' = [elapsed EXCEPT ![t] = @ + w]
  /\ UNCHANGED <<spc, requestVars, fut, processorVars, cpc, pos, exc,
                 processed,
                 nonSchedVars>>

\* _collect_batch: queue.get times out (queue.Empty):
\*   if batch: break, else continue
collect_batch_empty(t) ==
  /\ cpc[t] = "collect"
  /\ collecting(t)
  /\ queue = {}
  /\ elapsed' = [elapsed EXCEPT ![t] = @ + GET_TIMEOUT]
  /\ IF batch[t] # <<>>
     THEN StartDispatch(t, batch[t])
     ELSE UNCHANGED <<cpc, batch, pos, exc>>
  /\ UNCHANGED <<spc, requestVars, fut, queue, processorVars, historyVars,
                 nonSchedVars>>

\* _collect_batch: the while condition fails, return batch;
\* _process_batches: if batch: self._process_batch(batch)
\*                   else: time.sleep(0.01)
collect_batch_return(t) ==
  /\ cpc[t] = "collect"
  /\ ~collecting(t)
  /\ IF batch[t] # <<>>
     THEN StartDispatch(t, batch[t]) /\ elapsed' = elapsed
     ELSE NextCollection(t)
  /\ UNCHANGED <<spc, requestVars, fut, queue, processorVars, historyVars,
                 nonSchedVars>>

(***************************************************************************)
(* _process_batch groups the batch by role (a dict, so the groups keep the *)
(* order in which their roles first occur in the batch) and calls          *)
(* _process_role_group for each group.  DispatchOrder is the order in      *)
(* which the requests of the batch are handled.                            *)
(***************************************************************************)
RECURSIVE RoleOrder(_)
RoleOrder(b) ==
  IF b = <<>> THEN <<>>
  ELSE LET ro == rrole[Head(b)]
           IsOther(r) == rrole[r] # ro
       IN <<ro>> \o RoleOrder(SelectSeq(Tail(b), IsOther))

role_group(b, ro) == LET InGroup(r) == rrole[r] = ro IN SelectSeq(b, InGroup)

RECURSIVE Groups(_, _)
Groups(b, ros) ==
  IF ros = <<>> THEN <<>>
  ELSE role_group(b, Head(ros)) \o Groups(b, Tail(ros))

DispatchOrder(b) == Groups(b, RoleOrder(b))

\* the request thread t is handling
Current(t) == DispatchOrder(batch[t])[pos[t]]

\* _process_role_group: if request.future.cancelled(): continue
process_role_group_check(t) ==
  /\ cpc[t] = "dispatch"
  /\ pos[t] <= Len(batch[t])
  /\ IF cancelled(fut[Current(t)])
     THEN pos' = [pos EXCEPT ![t] = @ + 1] /\ cpc' = cpc
     ELSE pos' = pos /\ cpc' = [cpc EXCEPT ![t] = "process"]
  /\ UNCHANGED <<spc, requestVars, fut, queue, processorVars, batch, elapsed,
                 exc, historyVars,
                 nonSchedVars>>

\* _process_role_group:
\*   try:
\*       result = self._process_single_request(request)
\*       request.future.set_result(result)
\*   except Exception as e:
\*       request.future.set_exception(e)
\* _process_single_request returns a result or raises (the model call it
\* stands for fails, or input_text cannot be sliced).  set_result on a
\* future cancelled since the check raises InvalidStateError, which the
\* except clause catches; its set_exception raises InvalidStateError again,
\* and that one leaves _process_role_group and reaches the handler of
\* _process_batch.
process_single_request(t, ok) ==
  /\ cpc[t] = "process"
  /\ LET r == Current(t)
         v == IF ok THEN Result(r) ELSE ProcError(r)
     IN /\ processed' = processed \cup {<<r, ok>>}
        /\ fut' = [fut EXCEPT ![r] = set_value(fut[r], v)]
        /\ IF set_raises(fut[r])
           THEN /\ exc' = [exc EXCEPT ![t] = InvalidStateError(r)]
                /\ cpc' = [cpc EXCEPT ![t] = "handler"]
                /\ pos' = [pos EXCEPT ![t] = 1]
           ELSE /\ exc' = exc
                /\ cpc' = [cpc EXCEPT ![t] = "dispatch"]
                /\ pos' = [pos EXCEPT ![t] = @ + 1]
  /\ UNCHANGED <<spc, requestVars, queue, processorVars, batch, elapsed,
                 batched, discarded,
                 nonSchedVars>>

\* _process_batch: every group is done; the statistics are updated and the
\* loop of _process_batches goes round
process_batch_done(t) ==
  /\ cpc[t] = "dispatch"
  /\ pos[t] > Len(batch[t])
  /\ NextCollection(t)
  /\ UNCHANGED <<spc, requestVars, fut, queue, processorVars, historyVars,
                 nonSchedVars>>

(***************************************************************************)
(* The handler of _process_batch:                                          *)
(*   except Exception as e:                                                *)
(*       # Mark all requests as failed                                     *)
(*       for req in batch:                                                 *)
(*           if not req.future.done():                                     *)
(*               req.future.set_exception(e)                               *)
(***************************************************************************)
\* the requests the handler goes through
handler_group_only(t) == role_group(batch[t], rrole[exc[t].of])
handler_requests(t) == batch[t]

\* if not req.future.done()
handler_check(t) ==
  /\ cpc[t] = "handler"
  /\ pos[t] <= Len(handler_requests(t))
  /\ IF done(fut[handler_requests(t)[pos[t]]])
     THEN pos' = [pos EXCEPT ![t] = @ + 1] /\ cpc' = cpc
     ELSE pos' = pos /\ cpc' = [cpc EXCEPT ![t] = "handler_set"]
  /\ UNCHANGED <<spc, requestVars, fut, queue, processorVars, batch, elapsed,
                 exc, historyVars,
                 nonSchedVars>>

\* req.future.set_exception(e); on a future cancelled since the check it
\* raises InvalidStateError, which leaves _process_batch and is caught in
\* _process_batches
handler_set_exception(t) ==
  /\ cpc[t] = "handler_set"
  /\ LET r == handler_requests(t)[pos[t]] IN
       /\ fut' = [fut EXCEPT ![r] = set_value(fut[r], exc[t])]
       /\ IF set_raises(fut[r])
          THEN /\ exc' = [exc EXCEPT ![t] = InvalidStateError(r)]
               /\ cpc' = [cpc EXCEPT ![t] = "log_error"]
               /\ pos' = pos
          ELSE /\ exc' = exc
               /\ cpc' = [cpc EXCEPT ![t] = "handler"]
               /\ pos' = [pos EXCEPT ![t] = @ + 1]
  /\ UNCHANGED <<spc, requestVars, queue, processorVars, batch, elapsed,
                 historyVars,
                 nonSchedVars>>

\* the handler has gone through the batch
HandlerFinished(t) == cpc[t] = "handler" /\ pos[t] > Len(handler_requests(t))

handler_done(t) ==
  /\ HandlerFinished(t)
  /\ NextCollection(t)
  /\ UNCHANGED <<spc, requestVars, fut, queue, processorVars, historyVars,
                 nonSchedVars>>

\* _process_batches: except Exception as e: logger.error(...)
process_batches_log_error(t) ==
  /\ cpc[t] = "log_error"
  /\ NextCollection(t)
  /\ UNCHANGED <<spc, requestVars, fut, queue, processorVars, historyVars,
                 nonSchedVars>>

(***************************************************************************)
(* UltraAdvancedCache.  Every public method runs under self._lock, so each *)
(* is one step.  The hit/miss/eviction/memory statistics are not           *)
(* modelled: no method reads them to decide anything.                      *)
(***************************************************************************)
Keys == {"a", "b", "c"}

\* UltraAdvancedCache(max_size=..., ttl=...): the model's cache is built
\* small, with a ttl in seconds
max_size == 2
ttl == 1
\* the clock stops once an entry written at time 0 has expired
MaxTime == ttl + 1
\* a key is hit at most MaxHits times
MaxHits == 1

\* the length above which _compress_if_needed compresses a string
COMPRESS_ABOVE == 1000

\* values: strings, by identity and length; None
Str(id, n) == [kind |-> "str", id |-> id, len |-> n]
None == [kind |-> "None", id |-> 0, len |-> 0]
Values == {Str(1, 12), Str(2, COMPRESS_ABOVE + 1)}
\* the ttl argument of set: None (0), or a ttl longer than the cache's
LongTtl == ttl + 1
TtlArgs == {0, LongTtl}

\* effective_ttl = ttl or self.ttl
effective_ttl(ttl_arg) == IF ttl_arg = 0 THEN ttl ELSE ttl_arg

\* gzip.compress(value.encode('utf-8')) and its inverse
gzip_compress(v) == [v EXCEPT !.kind = "gzip"]
gzip_decompress(d) == [d EXCEPT !.kind = "str"]

\* _compress_if_needed
compress_if_needed(v) ==
  IF v.kind = "str" /\ v.len > COMPRESS_ABOVE
  THEN [compressed |-> TRUE, data |-> gzip_compress(v)]
  ELSE [compressed |-> FALSE, data |-> v]

\* _decompress_if_needed
decompress_forgotten(sv) == sv.data
decompress_if_needed(sv) ==
  IF sv.compressed THEN gzip_decompress(sv.data) ELSE sv.data

\* a dict without the keys ks
Without(d, ks) == [x \in DOMAIN d \ ks |-> d[x]]
\* d[k] = v
With(d, k, v) == [x \in DOMAIN d \cup {k} |-> IF x = k THEN v ELSE d[x]]
\* the insertion order of a dict's keys after del d[k] / d[k] = v
OrderWithout(o, ks) == LET Keep(x) == x \notin ks IN SelectSeq(o, Keep)
OrderWith(o, k) == IF \E i \in 1..Len(o) : o[i] = k THEN o ELSE Append(o, k)

\* _remove_key, for each key of ks
remove_keys(ks) ==
  /\ cache' = Without(cache, ks)
  /\ access_times' = Without(access_times, ks)
  /\ access_order' = OrderWithout(access_order, ks)
  /\ hit_counts' = Without(hit_counts, ks)

\* time.time() - access_time > self.ttl
expired_never(at, t) == FALSE
expired(at, t) == t - at > ttl

\* _cleanup_expired: the keys it removes
expired_keys(t) == {k \in DOMAIN access_times : expired(access_times[k], t)}

\* self.hit_counts.get(k, 0)
hits_of(k) == IF k \in DOMAIN hit_counts THEN hit_counts[k] ELSE 0

\* _evict_lru: min(self.access_times.keys(),
\*                 key=lambda k: (access_times[k], hit_counts.get(k, 0)))
\* over the keys in the sequence o (the dict's order); min returns the first
\* smallest one
lru_less_hits_first(j, k) ==
  \/ hits_of(j) < hits_of(k)
  \/ hits_of(j) = hits_of(k) /\ access_times[j] < access_times[k]
lru_less(j, k) ==
  \/ access_times[j] < access_times[k]
  \/ access_times[j] = access_times[k] /\ hits_of(j) < hits_of(k)

lru_key_first(o) == o[1]
lru_key(o) ==
  LET i == CHOOSE i \in 1..Len(o) :
             /\ \A j \in 1..Len(o) : ~lru_less(o[j], o[i])
             /\ \A j \in 1..(i - 1) : lru_less(o[i], o[j])
  IN o[i]

\* the keys _evict_lru removes when called with the keys of o left
evict_nothing(o) == {}
evict_lru(o) == IF o = <<>> THEN {} ELSE {lru_key(o)}

InitCache ==
  /\ cache = <<>>
  /\ access_times = <<>>
  /\ access_order = <<>>
  /\ hit_counts = <<>>
  /\ now = 0
  /\ last = [op |-> "init", key |-> "", val |-> None, path |-> "",
             evicted |-> {}]
  /\ written = <<>>

\* get(key)
get(key) ==
  /\ IF key \notin DOMAIN cache
     THEN /\ last' = [op |-> "get", key |-> key, val |-> None,
                      path |-> "absent", evicted |-> {}]
          /\ UNCHANGED <<cache, access_times, access_order, hit_counts>>
     ELSE IF expired(access_times[key], now)
     THEN /\ remove_keys({key})
          /\ last' = [op |-> "get", key |-> key, val |-> None,
                      path |-> "expired", evicted |-> {}]
     ELSE /\ access_times' = [access_times EXCEPT ![key] = now]
          /\ hit_counts' = With(hit_counts, key, hits_of(key) + 1)
          /\ last' = [op |-> "get", key |-> key,
                      val |-> decompress_if_needed(cache[key]),
                      path |-> "hit", evicted |-> {}]
          /\ UNCHANGED <<cache, access_order>>
  /\ UNCHANGED <<now, nonCacheVars>>

\* set(key, value, ttl): effective_ttl = ttl or self.ttl is computed and
\* not used.  _cleanup_expired(), then _evict_lru() if the cache is full and
\* the key new, then the three dicts are written.
set(key, value, ttl_arg) ==
  /\ LET dead == expired_keys(now)
         full == Cardinality(DOMAIN cache \ dead) >= max_size
                 /\ key \notin DOMAIN cache \ dead
         evicted == IF full
                    THEN evict_lru(OrderWithout(access_order, dead))
                    ELSE {}
         gone == dead \cup evicted
     IN /\ cache' = With(Without(cache, gone), key, compress_if_needed(value))
        /\ access_times' = With(Without(access_times, gone), key, now)
        /\ access_order' = OrderWith(OrderWithout(access_order, gone), key)
        /\ hit_counts' = With(Without(hit_counts, gone), key,
                              IF key \in gone THEN 0 ELSE hits_of(key))
        /\ last' = [op |-> "set", key |-> key, val |-> None, path |-> "",
                    evicted |-> {[key |-> e, at |-> access_times[e],
                                  hits |-> hits_of(e)] : e \in evicted}]
  /\ UNCHANGED <<now, nonCacheVars>>

\* clear()
clear ==
  /\ cache' = <<>>
  /\ access_times' = <<>>
  /\ access_order' = <<>>
  /\ hit_counts' = <<>>
  /\ last' = [op |-> "clear", key |-> "", val |-> None, path |-> "",
              evicted |-> {}]
  /\ UNCHANGED <<now, nonCacheVars>>

\* a second passes
Tick ==
  /\ now < MaxTime
  /\ now' = now + 1
  /\ UNCHANGED <<cache, access_times, access_order, hit_counts, last,
                 nonCacheVars>>

\* the callers read a key until it has been hit cap times
CanGet(key, cap) ==
  (/\ key \in DOMAIN cache
   /\ key \in DOMAIN access_times
   /\ ~expired(access_times[key], now)) =>
     hits_of(key) < cap

\* the history after a call: the keys the call left in the cache, and what
\* was written if the call was set(key, value, ttl)
Forget == written' = [k \in DOMAIN cache' |-> written[k]]
Remember(key, value, ttl_arg) ==
  written' = [k \in DOMAIN cache' |->
                IF k = key
                THEN [val |-> value, at |-> now,
                      ttl |-> effective_ttl(ttl_arg)]
                ELSE written[k]]

\* The cache as the servers use it: set is called without a ttl, as at
\* every call site.  The history is not recorded.
NextCache ==
  \/ \E k \in Keys :
       CanGet(k, MaxHits) /\ get(k) /\ UNCHANGED <<written, monVars>>
  \/ \E k \in Keys, v \in Values :
       set(k, v, 0) /\ UNCHANGED <<written, monVars>>
  \/ clear /\ UNCHANGED <<written, monVars>>
  \/ Tick /\ UNCHANGED <<written, monVars>>

\* The cache with the history recorded, with callers that also pass a ttl
\* and read a key once more.
NextCacheHist ==
  \/ \E k \in Keys :
       CanGet(k, MaxHits + 1) /\ get(k) /\ Forget /\ UNCHANGED monVars
  \/ \E k \in Keys, v \in Values, ta \in TtlArgs :
       set(k, v, ta) /\ Remember(k, v, ta) /\ UNCHANGED monVars
  \/ clear /\ Forget /\ UNCHANGED monVars
  \/ Tick /\ UNCHANGED <<written, monVars>>

(***************************************************************************)
(* The cache, statement by statement.  A request thread and the thread     *)
(* that runs the memory manager's cleanup callbacks call get, set and      *)
(* clear; each call takes self._lock (with self._lock:), runs its          *)
(* statements one at a time and releases the lock.  A thread that waits    *)
(* for the lock has not started its call.  The clock runs on during a      *)
(* call.  The return values and the history are not recorded here.         *)
(***************************************************************************)
CacheThreads == {"request", "cleanup"}
\* the values the threads store: one, the value plays no part in what the
\* calls do to the keys
LockValues == {Str(1, 12)}

Idle == [pc |-> "idle", key |-> "", val |-> None, todo |-> <<>>, after |-> ""]

InitLock ==
  /\ lock = ""
  /\ th = [t \in CacheThreads |-> Idle]

\* with self._lock: the lock can be taken when no thread holds it
can_acquire_always(t) == TRUE
can_acquire(t) == lock = ""

\* thread t goes to pc
Goto(t, pc) == th' = [th EXCEPT ![t].pc = pc]
\* thread t goes to _remove_key for each key of ks, then to pc
Remove(t, ks, pc) ==
  th' = [th EXCEPT ![t].todo = ks,
                   ![t].after = IF ks = <<>> THEN "" ELSE pc,
                   ![t].pc = IF ks = <<>> THEN pc ELSE "remove_cache"]

\* with self._lock: on entry
acquire(t, pc, key, value) ==
  /\ th[t].pc = "idle"
  /\ can_acquire(t)
  /\ lock' = t
  /\ th' = [th EXCEPT ![t] = [Idle EXCEPT !.pc = pc, !.key = key,
                                          !.val = value]]
  /\ UNCHANGED <<cache, access_times, access_order, hit_counts, nonLockVars>>

\* with self._lock: on exit, by return or by an exception
release(t) ==
  /\ th[t].pc = "release"
  /\ lock' = IF lock = t THEN "" ELSE lock
  /\ th' = [th EXCEPT ![t] = Idle]
  /\ UNCHANGED <<cache, access_times, access_order, hit_counts, nonLockVars>>

\* get: if key not in self.cache: return None;
\*      if time.time() - self.access_times[key] > self.ttl: _remove_key(key)
\* (self.access_times[key] raises KeyError if the key is not there)
get_check(t) ==
  /\ th[t].pc = "get_check"
  /\ LET key == th[t].key IN
       IF key \notin DOMAIN cache \/ key \notin DOMAIN access_times
       THEN Goto(t, "release")
       ELSE IF expired(access_times[key], now)
       THEN Remove(t, <<key>>, "release")
       ELSE Goto(t, "get_access_time")
  /\ UNCHANGED <<lock, cache, access_times, access_order, hit_counts,
                 nonLockVars>>

\* get: self.access_times[key] = time.time()
get_access_time(t) ==
  /\ th[t].pc = "get_access_time"
  /\ access_times' = With(access_times, th[t].key, now)
  /\ access_order' = OrderWith(access_order, th[t].key)
  /\ Goto(t, "get_hit_count")
  /\ UNCHANGED <<lock, cache, hit_counts, nonLockVars>>

\* get: self.hit_counts[key] = self.hit_counts.get(key, 0) + 1, and return
get_hit_count(t) ==
  /\ th[t].pc = "get_hit_count"
  /\ hit_counts' = With(hit_counts, th[t].key, hits_of(th[t].key) + 1)
  /\ Goto(t, "release")
  /\ UNCHANGED <<lock, cache, access_times, access_order, nonLockVars>>

\* _remove_key(key): if key in self.cache: del self.cache[key]
remove_cache(t) ==
  /\ th[t].pc = "remove_cache"
  /\ cache' = Without(cache, {Head(th[t].todo)})
  /\ Goto(t, "remove_access_time")
  /\ UNCHANGED <<lock, access_times, access_order, hit_counts, nonLockVars>>

\* _remove_key(key): if key in self.access_times: del self.access_times[key]
remove_access_time(t) ==
  /\ th[t].pc = "remove_access_time"
  /\ access_times' = Without(access_times, {Head(th[t].todo)})
  /\ access_order' = OrderWithout(access_order, {Head(th[t].todo)})
  /\ Goto(t, "remove_hit_count")
  /\ UNCHANGED <<lock, cache, hit_counts, nonLockVars>>

\* _remove_key(key): if key in self.hit_counts: del self.hit_counts[key];
\* then the next key, or back to the caller
remove_hit_count(t) ==
  /\ th[t].pc = "remove_hit_count"
  /\ hit_counts' = Without(hit_counts, {Head(th[t].todo)})
  /\ Remove(t, Tail(th[t].todo), th[t].after)
  /\ UNCHANGED <<lock, cache, access_times, access_order, nonLockVars>>

\* set: _cleanup_expired(): expired_keys = [key for key, access_time in
\* self.access_times.items() if current_time - access_time > self.ttl]
set_cleanup_expired(t) ==
  /\ th[t].pc = "set_cleanup_expired"
  /\ Remove(t, LET Old(k) == expired(access_times[k], now)
               IN SelectSeq(access_order, Old),
            "set_make_room")
  /\ UNCHANGED <<lock, cache, access_times, access_order, hit_counts,
                 nonLockVars>>

\* set: if len(self.cache) >= self.max_size and key not in self.cache:
\*          self._evict_lru()
set_make_room(t) ==
  /\ th[t].pc = "set_make_room"
  /\ IF /\ Cardinality(DOMAIN cache) >= max_size
        /\ th[t].key \notin DOMAIN cache
        /\ access_order # <<>>
     THEN Remove(t, <<lru_key(access_order)>>, "set_cache")
     ELSE Goto(t, "set_cache")
  /\ UNCHANGED <<lock, cache, access_times, access_order, hit_counts,
                 nonLockVars>>

\* set: self.cache[key] = compressed_value
set_cache(t) ==
  /\ th[t].pc = "set_cache"
  /\ cache' = With(cache, th[t].key, compress_if_needed(th[t].val))
  /\ Goto(t, "set_access_time")
  /\ UNCHANGED <<lock, access_times, access_order, hit_counts, nonLockVars>>

\* set: self.access_times[key] = time.time()
set_access_time(t) ==
  /\ th[t].pc = "set_access_time"
  /\ access_times' = With(access_times, th[t].key, now)
  /\ access_order' = OrderWith(access_order, th[t].key)
  /\ Goto(t, "set_hit_count")
  /\ UNCHANGED <<lock, cache, hit_counts, nonLockVars>>

\* set: self.hit_counts[key] = self.hit_counts.get(key, 0)
set_hit_count(t) ==
  /\ th[t].pc = "set_hit_count"
  /\ hit_counts' = With(hit_counts, th[t].key, hits_of(th[t].key))
  /\ Goto(t, "release")
  /\ UNCHANGED <<lock, cache, access_times, access_order, nonLockVars>>

\* clear: self.cache.clear()
clear_cache(t) ==
  /\ th[t].pc = "clear_cache"
  /\ cache' = <<>>
  /\ Goto(t, "clear_access_times")
  /\ UNCHANGED <<lock, access_times, access_order, hit_counts, nonLockVars>>

\* clear: self.access_times.clear()
clear_access_times(t) ==
  /\ th[t].pc = "clear_access_times"
  /\ access_times' = <<>>
  /\ access_order' = <<>>
  /\ Goto(t, "clear_hit_counts")
  /\ UNCHANGED <<lock, cache, hit_counts, nonLockVars>>

\* clear: self.hit_counts.clear()
clear_hit_counts(t) ==
  /\ th[t].pc = "clear_hit_counts"
  /\ hit_counts' = <<>>
  /\ Goto(t, "release")
  /\ UNCHANGED <<lock, cache, access_times, access_order, nonLockVars>>

\* a second passes, also in the middle of a call
TickLock ==
  /\ now < MaxTime
  /\ now' = now + 1
  /\ UNCHANGED <<cache, access_times, access_order, hit_counts, last,
                 written, lockVars, nonCacheVars, monVars>>

NextLock ==
  \/ \E t \in CacheThreads, k \in Keys :
       CanGet(k, MaxHits) /\ acquire(t, "get_check", k, None)
  \/ \E t \in CacheThreads, k \in Keys, v \in LockValues :
       acquire(t, "set_cleanup_expired", k, v)
  \/ \E t \in CacheThreads : acquire(t, "clear_cache", "", None)
  \/ \E t \in CacheThreads :
       \/ get_check(t)
       \/ get_access_time(t)
       \/ get_hit_count(t)
       \/ remove_cache(t)
       \/ remove_access_time(t)
       \/ remove_hit_count(t)
       \/ set_cleanup_expired(t)
       \/ set_make_room(t)
       \/ set_cache(t)
       \/ set_access_time(t)
       \/ set_hit_count(t)
       \/ clear_cache(t)
       \/ clear_access_times(t)
       \/ clear_hit_counts(t)
       \/ release(t)
  \/ TickLock

(***************************************************************************)
(* UltraConversationState.  Every public method runs under self._lock, so  *)
(* each is one step here.  A message is its role, the length of its        *)
(* content and the exchange it belongs to (ex: the exchanges of a session  *)
(* are numbered as they are added, which tells the contents apart).  The   *)
(* "created" and "timestamp" fields are written and never read.            *)
(***************************************************************************)
\* UltraConversationState(max_age_hours=..., max_conversations=...): the
\* model's store is built small, with max_age as the unit of time
max_age == 1
max_conversations == 2
\* the clock stops once a session touched at time 0 is older than max_age
MaxClock == max_age + 1
\* a session gets at most MaxExchanges exchanges
MaxExchanges == 16
\* and at most CallerExchanges under SpecCaller
CallerExchanges == 2

\* _intelligent_truncate: the limits and the averages that select them
BASE_MAX == 20
LONG_AVG == 500
LONG_MAX == 12
SHORT_AVG == 100
SHORT_MAX == 30
\* emergency_cleanup keeps the 10 most recent sessions
KEEP_RECENT == 10

\* one session more than emergency_cleanup keeps
Sessions == 1..(KEEP_RECENT + 1)
\* len(user_input), len(ai_response) of an exchange: short or long
ShortExchange == <<50, 50>>
LongExchange == <<600, 600>>
Exchanges == {ShortExchange, LongExchange}

Message(role, n, ex) == [role |-> role, len |-> n, ex |-> ex]
NewStats == [message_count |-> 0, total_chars |-> 0]

\* sum(len(msg["content"]) for msg in conversation)
RECURSIVE total_length(_)
total_length(msgs) ==
  IF msgs = <<>> THEN 0 ELSE Head(msgs).len + total_length(Tail(msgs))

\* conversation[-n:], for n > 0
LastMessages(msgs, n) ==
  IF n >= Len(msgs) THEN msgs ELSE SubSeq(msgs, Len(msgs) - n + 1, Len(msgs))

\* _intelligent_truncate: max_messages, from
\* avg_char_per_message = total_chars / max(message_count, 1)
max_messages(stats) ==
  LET n == IF stats.message_count > 1 THEN stats.message_count ELSE 1 IN
    IF stats.total_chars > LONG_AVG * n THEN LONG_MAX
    ELSE IF stats.total_chars < SHORT_AVG * n THEN SHORT_MAX
    ELSE BASE_MAX

\* keep_count = max_messages - 2
keep_count_odd(mm) == mm - 1
keep_count(mm) == mm - 2

\* _intelligent_truncate: the statistics of the messages kept
recount_chars_kept(kept, stats) ==
  [message_count |-> Len(kept), total_chars |-> stats.total_chars]
recount(kept, stats) ==
  [message_count |-> Len(kept), total_chars |-> total_length(kept)]

\* _intelligent_truncate: the conversation and the statistics it leaves
truncated(msgs, stats) ==
  IF Len(msgs) > max_messages(stats)
  THEN LastMessages(msgs, keep_count(max_messages(stats)))
  ELSE msgs
truncated_stats(msgs, stats) ==
  IF Len(msgs) > max_messages(stats)
  THEN recount(truncated(msgs, stats), stats)
  ELSE stats

\* the position of session s in the order of self.last_access
Position(s) == CHOOSE i \in 1..Len(session_order) : session_order[i] = s

\* sorted(self.last_access.items(), key=lambda x: x[1]): a comes before b
\* (sorted is stable)
older(a, b) ==
  \/ last_access[a] < last_access[b]
  \/ last_access[a] = last_access[b] /\ Position(a) < Position(b)
\* the same with reverse=True, which also leaves equal times in dict order
newer(a, b) ==
  \/ last_access[a] > last_access[b]
  \/ last_access[a] = last_access[b] /\ Position(a) < Position(b)

\* sorted_by_access[:n]
oldest(n) ==
  {s \in DOMAIN last_access :
     Cardinality({q \in DOMAIN last_access : older(q, s)}) < n}
\* sorted(...)[:n], without reverse=True
most_recent_unreversed(n) == oldest(n)
\* sorted(..., reverse=True)[:n]
most_recent(n) ==
  {s \in DOMAIN last_access :
     Cardinality({q \in DOMAIN last_access : newer(q, s)}) < n}

\* _cleanup_if_needed: the sessions it removes
aged == {s \in DOMAIN last_access : clock - last_access[s] > max_age}
to_remove ==
  IF 5 * Cardinality(DOMAIN conversations) < 4 * max_conversations
  THEN {}
  ELSE LET additional_remove ==
             Cardinality(DOMAIN conversations) - Cardinality(aged)
               - max_conversations
       IN IF additional_remove > 0
          THEN aged \cup oldest(additional_remove)
          ELSE aged

\* no call of the store yet
NoCall == [op |-> "", s |-> 0, ret |-> <<>>, removed |-> 0]

InitConv ==
  /\ conversations = <<>>
  /\ last_access = <<>>
  /\ session_order = <<>>
  /\ conversation_stats = <<>>
  /\ clock = 0
  /\ opened = 0
  /\ clast = NoCall

\* get_history(session_id): _cleanup_if_needed(), the access time, and an
\* empty conversation if the session has none; returns a copy
get_history(s) ==
  /\ LET gone == to_remove
         fresh == s \notin DOMAIN conversations \ gone
     IN /\ last_access' = With(Without(last_access, gone), s, clock)
        /\ session_order' = OrderWith(OrderWithout(session_order, gone), s)
        /\ conversations' =
             IF fresh THEN With(Without(conversations, gone), s, <<>>)
             ELSE Without(conversations, gone)
        /\ conversation_stats' =
             IF fresh THEN With(Without(conversation_stats, gone), s, NewStats)
             ELSE Without(conversation_stats, gone)
  /\ UNCHANGED <<clock, nonConvVars>>

\* the number the next exchange of a conversation gets
next_exchange(msgs) == IF msgs = <<>> THEN 1 ELSE msgs[Len(msgs)].ex + 1

\* add_exchange(session_id, user_input, ai_response), the lengths in e
add_exchange(s, e) ==
  /\ LET fresh == s \notin DOMAIN conversations
         old == IF fresh THEN <<>> ELSE conversations[s]
         stats == IF fresh THEN NewStats ELSE conversation_stats[s]
         ex == next_exchange(old)
         extended == old \o <<Message("user", e[1], ex),
                              Message("assistant", e[2], ex)>>
         added == [message_count |-> stats.message_count + 2,
                   total_chars |-> stats.total_chars + e[1] + e[2]]
     IN /\ ex <= MaxExchanges
        /\ conversations' = With(conversations, s, truncated(extended, added))
        /\ conversation_stats' =
             With(conversation_stats, s, truncated_stats(extended, added))
        /\ last_access' = With(last_access, s, clock)
        /\ session_order' = OrderWith(session_order, s)
  /\ UNCHANGED <<clock, nonConvVars>>

\* _remove_conversation, for each session of gone
remove_conversations(gone) ==
  /\ conversations' = Without(conversations, gone)
  /\ last_access' = Without(last_access, gone)
  /\ session_order' = OrderWithout(session_order, gone)
  /\ conversation_stats' = Without(conversation_stats, gone)

\* _background_cleanup, every 5 minutes: _cleanup_if_needed()
background_cleanup ==
  /\ remove_conversations(to_remove)
  /\ UNCHANGED <<clock, nonConvVars>>

\* emergency_cleanup()
emergency_cleanup ==
  /\ IF Cardinality(DOMAIN conversations) > KEEP_RECENT
     THEN remove_conversations(DOMAIN conversations \ most_recent(KEEP_RECENT))
     ELSE UNCHANGED <<conversations, last_access, session_order,
                      conversation_stats>>
  /\ UNCHANGED <<clock, nonConvVars>>

\* time passes: up to the age limit, then beyond it
TickConv ==
  /\ clock < MaxClock
  /\ clock' = IF clock < max_age THEN max_age ELSE clock + 1
  /\ UNCHANGED <<conversations, last_access, session_order,
                 conversation_stats, opened, clast, nonConvVars>>

\* the caller uses a session id for the first time: it is the next one
Open(s) ==
  /\ s \in DOMAIN conversations \/ s = opened + 1
  /\ opened' = IF s = opened + 1 THEN s ELSE opened

\* the exchanges of the first session under SpecStore: one more than a
\* history of long messages holds, so that the last one truncates it
StoreExchanges == LONG_MAX \div 2 + 1

\* One session, with short and long exchanges in any order.
NextConv ==
  \/ get_history(1) /\ Open(1) /\ UNCHANGED <<clast, monVars>>
  \/ \E e \in Exchanges :
       add_exchange(1, e) /\ Open(1) /\ UNCHANGED <<clast, monVars>>

\* Many sessions.  The first one is read and written again and again, with
\* StoreExchanges long exchanges; every other session is created by its first exchange and
\* not used again.  The sweep and the emergency cleanup run at any time.
NextStore ==
  \/ get_history(1) /\ Open(1) /\ UNCHANGED <<clast, monVars>>
  \/ \E s \in Sessions :
       /\ s = 1 \/ s \notin DOMAIN conversations
       /\ s \in DOMAIN conversations =>
            next_exchange(conversations[s]) <= StoreExchanges
       /\ add_exchange(s, LongExchange)
       /\ Open(s)
       /\ UNCHANGED <<clast, monVars>>
  \/ background_cleanup /\ UNCHANGED <<opened, clast, monVars>>
  \/ emergency_cleanup /\ UNCHANGED <<opened, clast, monVars>>
  \/ TickConv /\ UNCHANGED monVars

\* the call op for session s was the last one; get_history returns
\* self.conversations[session_id].copy()
Called(op, s) ==
  clast' = [op |-> op, s |-> s,
            ret |-> IF op = "get_history" THEN conversations'[s] ELSE <<>>,
            removed |-> Cardinality(DOMAIN conversations
                                      \ DOMAIN conversations')]

\* The same calls as under SpecStore, each one recorded in clast.
NextStoreHist ==
  \/ get_history(1) /\ Open(1) /\ Called("get_history", 1)
       /\ UNCHANGED monVars
  \/ \E s \in Sessions :
       /\ s = 1 \/ s \notin DOMAIN conversations
       /\ s \in DOMAIN conversations =>
            next_exchange(conversations[s]) <= StoreExchanges
       /\ add_exchange(s, LongExchange)
       /\ Open(s)
       /\ Called("add_exchange", s)
       /\ UNCHANGED monVars
  \/ background_cleanup /\ Called("_background_cleanup", 0)
       /\ UNCHANGED <<opened, monVars>>
  \/ emergency_cleanup /\ Called("emergency_cleanup", 0)
       /\ UNCHANGED <<opened, monVars>>
  \/ TickConv /\ UNCHANGED monVars

(***************************************************************************)
(* The caller of get_history and the list it got.  list.copy() is a        *)
(* shallow copy: the returned list is a new list of the same message       *)
(* dicts.  A message dict is identified by its exchange and its role; the  *)
(* dicts the caller makes itself have exchange 0.                          *)
(***************************************************************************)
HasList == clast.op \in {"get_history", "caller"}
SameDict(a, b) == a.ex = b.ex /\ a.role = b.role

\* history.append({...}): a dict of the caller's
caller_append ==
  /\ HasList
  /\ \A i \in 1..Len(clast.ret) : clast.ret[i].ex # 0
  /\ clast' = [clast EXCEPT !.op = "caller",
                            !.ret = Append(@, Message("user", 0, 0))]
  /\ UNCHANGED <<storeVars, opened, nonConvVars>>

\* history.pop()
caller_remove ==
  /\ HasList
  /\ clast.ret # <<>>
  /\ clast' = [clast EXCEPT !.op = "caller",
                            !.ret = SubSeq(@, 1, Len(@) - 1)]
  /\ UNCHANGED <<storeVars, opened, nonConvVars>>

\* history[i - 1]["content"] = a string of length n: the dict changes, in
\* every list that holds it
caller_set_content(i, n) ==
  /\ HasList
  /\ i \in 1..Len(clast.ret)
  /\ clast.ret[i].len # n
  /\ clast' = [clast EXCEPT !.op = "caller", !.ret[i].len = n]
  /\ conversations' =
       [s \in DOMAIN conversations |->
          [j \in 1..Len(conversations[s]) |->
             IF s = clast.s /\ SameDict(conversations[s][j], clast.ret[i])
             THEN [conversations[s][j] EXCEPT !.len = n]
             ELSE conversations[s][j]]]
  /\ UNCHANGED <<last_access, session_order, conversation_stats, clock,
                 opened, nonConvVars>>

\* One session with at most CallerExchanges long exchanges, and the caller
\* changing the list get_history returned.
NextCaller ==
  \/ get_history(1) /\ Open(1) /\ Called("get_history", 1)
       /\ UNCHANGED monVars
  \/ /\ 1 \in DOMAIN conversations =>
          next_exchange(conversations[1]) <= CallerExchanges
     /\ add_exchange(1, LongExchange)
     /\ Open(1)
     /\ Called("add_exchange", 1)
     /\ UNCHANGED monVars
  \/ caller_append /\ UNCHANGED monVars
  \/ caller_remove /\ UNCHANGED monVars
  \/ \E i \in 1..(2 * CallerExchanges + 1), n \in {0, ShortExchange[1]} :
       caller_set_content(i, n) /\ UNCHANGED monVars

(***************************************************************************)
(* add_exchange statement by statement, called by two threads for the same *)
(* session.  Each thread sends exchanges of its own length, both in the    *)
(* bucket of long messages, so that a message shows which thread added it. *)
(***************************************************************************)
StoreThreads == {"request1", "request2"}
TheSession == 1
ThreadExchange(t) ==
  IF t = "request1" THEN LongExchange ELSE <<LONG_AVG + 1, LONG_AVG + 1>>

StoreIdle == [pc |-> "idle", e |-> <<0, 0>>, ex |-> 0, kept |-> <<>>]

InitStoreLock ==
  /\ store_lock = ""
  /\ sth = [t \in StoreThreads |-> StoreIdle]
  /\ calls = 0

\* with self._lock: the lock can be taken when no thread holds it
store_can_acquire_always(t) == TRUE
store_can_acquire(t) == store_lock = ""

\* thread t goes to pc
StoreGoto(t, pc) == sth' = [sth EXCEPT ![t].pc = pc]

\* add_exchange: with self._lock
store_acquire(t) ==
  /\ sth[t].pc = "idle"
  /\ calls < MaxExchanges
  /\ store_can_acquire(t)
  /\ store_lock' = t
  /\ calls' = calls + 1
  /\ sth' = [sth EXCEPT ![t] = [StoreIdle EXCEPT !.pc = "add_check",
                                                 !.e = ThreadExchange(t),
                                                 !.ex = calls + 1]]
  /\ UNCHANGED <<conversations, last_access, session_order,
                 conversation_stats, nonStoreVars>>

\* if session_id not in self.conversations
add_check(t) ==
  /\ sth[t].pc = "add_check"
  /\ StoreGoto(t, IF TheSession \in DOMAIN conversations
                  THEN "add_extend" ELSE "add_create")
  /\ UNCHANGED <<store_lock, calls, conversations, last_access, session_order,
                 conversation_stats, nonStoreVars>>

\* self.conversations[session_id] = []
add_create(t) ==
  /\ sth[t].pc = "add_create"
  /\ conversations' = With(conversations, TheSession, <<>>)
  /\ StoreGoto(t, "add_create_stats")
  /\ UNCHANGED <<store_lock, calls, last_access, session_order,
                 conversation_stats, nonStoreVars>>

\* self.conversation_stats[session_id] = {...}
add_create_stats(t) ==
  /\ sth[t].pc = "add_create_stats"
  /\ conversation_stats' = With(conversation_stats, TheSession, NewStats)
  /\ StoreGoto(t, "add_extend")
  /\ UNCHANGED <<store_lock, calls, conversations, last_access, session_order,
                 nonStoreVars>>

\* self.conversations[session_id].extend(new_messages)
add_extend(t) ==
  /\ sth[t].pc = "add_extend"
  /\ conversations' =
       [conversations EXCEPT ![TheSession] =
          @ \o <<Message("user", sth[t].e[1], sth[t].ex),
                 Message("assistant", sth[t].e[2], sth[t].ex)>>]
  /\ StoreGoto(t, "add_last_access")
  /\ UNCHANGED <<store_lock, calls, last_access, session_order,
                 conversation_stats, nonStoreVars>>

\* self.last_access[session_id] = timestamp
add_last_access(t) ==
  /\ sth[t].pc = "add_last_access"
  /\ last_access' = With(last_access, TheSession, clock)
  /\ session_order' = OrderWith(session_order, TheSession)
  /\ StoreGoto(t, "add_count")
  /\ UNCHANGED <<store_lock, calls, conversations, conversation_stats,
                 nonStoreVars>>

\* stats["message_count"] += 2
add_count(t) ==
  /\ sth[t].pc = "add_count"
  /\ conversation_stats' =
       [conversation_stats EXCEPT ![TheSession].message_count = @ + 2]
  /\ StoreGoto(t, "add_chars")
  /\ UNCHANGED <<store_lock, calls, conversations, last_access, session_order,
                 nonStoreVars>>

\* stats["total_chars"] += len(user_input) + len(ai_response)
add_chars(t) ==
  /\ sth[t].pc = "add_chars"
  /\ conversation_stats' =
       [conversation_stats EXCEPT
          ![TheSession].total_chars = @ + sth[t].e[1] + sth[t].e[2]]
  /\ StoreGoto(t, "truncate_check")
  /\ UNCHANGED <<store_lock, calls, conversations, last_access, session_order,
                 nonStoreVars>>

\* _intelligent_truncate: max_messages, if len(conversation) > max_messages,
\* and conversation = conversation[-keep_count:]
truncate_check(t) ==
  /\ sth[t].pc = "truncate_check"
  /\ LET conversation == conversations[TheSession]
         mm == max_messages(conversation_stats[TheSession])
     IN sth' = IF Len(conversation) > mm
               THEN [sth EXCEPT
                       ![t].kept = LastMessages(conversation, keep_count(mm)),
                       ![t].pc = "truncate_store"]
               ELSE [sth EXCEPT ![t].pc = "release"]
  /\ UNCHANGED <<store_lock, calls, conversations, last_access, session_order,
                 conversation_stats, nonStoreVars>>

\* self.conversations[session_id] = conversation
truncate_store(t) ==
  /\ sth[t].pc = "truncate_store"
  /\ conversations' = With(conversations, TheSession, sth[t].kept)
  /\ StoreGoto(t, "truncate_chars")
  /\ UNCHANGED <<store_lock, calls, last_access, session_order,
                 conversation_stats, nonStoreVars>>

\* stats["total_chars"] = sum(len(msg["content"]) for msg in conversation)
truncate_chars(t) ==
  /\ sth[t].pc = "truncate_chars"
  /\ conversation_stats' =
       [conversation_stats EXCEPT
          ![TheSession].total_chars = total_length(sth[t].kept)]
  /\ StoreGoto(t, "truncate_count")
  /\ UNCHANGED <<store_lock, calls, conversations, last_access, session_order,
                 nonStoreVars>>

\* stats["message_count"] = len(conversation)
truncate_count(t) ==
  /\ sth[t].pc = "truncate_count"
  /\ conversation_stats' =
       [conversation_stats EXCEPT
          ![TheSession].message_count = Len(sth[t].kept)]
  /\ StoreGoto(t, "release")
  /\ UNCHANGED <<store_lock, calls, conversations, last_access, session_order,
                 nonStoreVars>>

\* the end of the with block, and the return
store_release(t) ==
  /\ sth[t].pc = "release"
  /\ store_lock' = IF store_lock = t THEN "" ELSE store_lock
  /\ sth' = [sth EXCEPT ![t] = StoreIdle]
  /\ UNCHANGED <<calls, conversations, last_access, session_order,
                 conversation_stats, nonStoreVars>>

NextStoreLock ==
  \E t \in StoreThreads :
    \/ store_acquire(t)
    \/ add_check(t)
    \/ add_create(t)
    \/ add_create_stats(t)
    \/ add_extend(t)
    \/ add_last_access(t)
    \/ add_count(t)
    \/ add_chars(t)
    \/ truncate_check(t)
    \/ truncate_store(t)
    \/ truncate_chars(t)
    \/ truncate_count(t)
    \/ store_release(t)

(***************************************************************************)
(* AdvancedMemoryManager.  monitor_memory takes a sample, computes the     *)
(* trend and runs the cleanups, one call of a callback, of                 *)
(* content_cache.clear or of conversation_state.emergency_cleanup at a     *)
(* step.  One monitor_memory call runs at a time.  The percentages are     *)
(* whole numbers and the clock advances half a window at a time or not at  *)
(* all between two calls.                                                  *)
(***************************************************************************)
warning_threshold == 75
critical_threshold == 85
\* cutoff = now - 60
WINDOW == 60
\* self.memory_history[-5:]
RECENT == 5
\* ultra_chat: memory_stats["current_percent"] > 90
OVERLOADED == 90

\* memory.percent: at the warning threshold, at the critical threshold,
\* above it, and above what ultra_chat takes
Percents ==
  {warning_threshold, critical_threshold, critical_threshold + 1,
   OVERLOADED + 1}
TickSeconds == WINDOW \div 2
MaxMTime == WINDOW + TickSeconds
\* the samples in self.memory_history under SpecTrend
MaxSamples == 6
\* and under SpecMonitor and SpecChat
FewSamples == 2

\* the callbacks registered at lines 478 and 638, in this order
cleanup_callbacks == <<"gc.collect", "content_cache.clear">>

MonIdle ==
  [pc |-> "idle", caller |-> "", percent |-> 0, todo |-> <<>>, ran |-> <<>>,
   cleared |-> 0, emergency |-> 0, trend |-> "", cleanup_triggered |-> FALSE,
   raised |-> "", failed |-> <<>>]
ChatIdle ==
  [pc |-> "idle", question |-> FALSE, use_resources |-> FALSE, status |-> 0,
   answer |-> "", content |-> None, generated |-> 0, outcome |-> ""]

InitMon ==
  /\ memory_history = <<>>
  /\ mtime = 0
  /\ mon = MonIdle
  /\ chat = ChatIdle

\* [(t, p) for t, p in self.memory_history if t > cutoff]
Retained(h, t) ==
  LET Kept(x) == x.t > t - WINDOW IN SelectSeq(h, Kept)

\* h[-n:]
LastSamples(h, n) ==
  IF n >= Len(h) THEN h ELSE SubSeq(h, Len(h) - n + 1, Len(h))

\* _calculate_trend: slope = dp / dt, compared with 0.5 and -0.5 (dt is
\* never negative here); the division raises when dt is 0
calculate_trend(h) ==
  IF Len(h) < 2 THEN "stable"
  ELSE LET recent == LastSamples(h, RECENT)
           dp == recent[Len(recent)].p - recent[1].p
           dt == recent[Len(recent)].t - recent[1].t
       IN IF dt = 0 THEN "ZeroDivisionError"
          ELSE IF 2 * dp > dt THEN "increasing"
          ELSE IF 2 * dp < 0 - dt THEN "decreasing"
          ELSE "stable"

\* monitor_memory, called by c with memory.percent = p: the sample, the
\* history and stats["trend"] (lines 99-113)
monitor_memory(c, p) ==
  /\ mon.pc = "idle"
  /\ LET h == Retained(Append(memory_history, [t |-> mtime, p |-> p]), mtime)
         trend == calculate_trend(h)
     IN /\ memory_history' = h
        /\ mon' = IF trend = "ZeroDivisionError"
                  THEN [MonIdle EXCEPT !.caller = c, !.percent = p,
                                       !.raised = trend, !.pc = "raise"]
                  ELSE [MonIdle EXCEPT
                          !.caller = c, !.percent = p, !.trend = trend,
                          !.todo = IF p > warning_threshold
                                   THEN cleanup_callbacks ELSE <<>>,
                          !.pc = IF p > warning_threshold
                                 THEN "_gentle_cleanup" ELSE "return"]
  /\ UNCHANGED mtime

\* where monitor_memory goes on after _gentle_cleanup
after_gentle_cleanup ==
  IF mon.percent > critical_threshold THEN "clear" ELSE "return"

\* the callback called: the next one, or the end of _gentle_cleanup
callback_called ==
  mon' = [mon EXCEPT !.ran = Append(@, Head(mon.todo)),
                     !.todo = Tail(@),
                     !.pc = IF Tail(mon.todo) = <<>>
                            THEN after_gentle_cleanup ELSE @]

\* a _gentle_cleanup without its try/except: the exception of the callback
\* leaves the loop and monitor_memory
callback_escapes ==
  mon' = [mon EXCEPT !.failed = Append(@, Head(mon.todo)),
                     !.raised = "Exception",
                     !.pc = "raise"]
\* the callback raises: except Exception logs a warning and the loop goes
\* on with the next callback
callback_raised ==
  mon' = [mon EXCEPT !.failed = Append(@, Head(mon.todo)),
                     !.todo = Tail(@),
                     !.pc = IF Tail(mon.todo) = <<>>
                            THEN after_gentle_cleanup ELSE @]

\* _gentle_cleanup: the callback raises before it has done anything
gentle_cleanup_raises ==
  /\ mon.pc = "_gentle_cleanup"
  /\ callback_raised
  /\ UNCHANGED <<memory_history, mtime, chat, cacheVars, convVars,
                 nonMonVars>>

\* _gentle_cleanup: the callback lambda: gc.collect()
gentle_cleanup_gc ==
  /\ mon.pc = "_gentle_cleanup"
  /\ Head(mon.todo) = "gc.collect"
  /\ callback_called
  /\ UNCHANGED <<memory_history, mtime, chat, cacheVars, convVars,
                 nonMonVars>>

\* _gentle_cleanup: the callback lambda: content_cache.clear()
gentle_cleanup_clear ==
  /\ mon.pc = "_gentle_cleanup"
  /\ Head(mon.todo) = "content_cache.clear"
  /\ callback_called
  /\ clear
  /\ UNCHANGED <<written, memory_history, mtime, chat>>

\* _emergency_cleanup: content_cache.clear()
emergency_cleanup_clear ==
  /\ mon.pc = "clear"
  /\ mon' = [mon EXCEPT !.cleared = @ + 1, !.pc = "emergency_cleanup"]
  /\ clear
  /\ UNCHANGED <<written, memory_history, mtime, chat>>

\* _emergency_cleanup: conversation_state.emergency_cleanup()
emergency_cleanup_store ==
  /\ mon.pc = "emergency_cleanup"
  /\ mon' = [mon EXCEPT !.emergency = @ + 1, !.pc = "return"]
  /\ emergency_cleanup
  /\ UNCHANGED <<opened, clast, memory_history, mtime, chat>>

\* stats["cleanup_triggered"] and return stats, to ultra_chat or to another
\* caller
monitor_return ==
  /\ mon.pc = "return"
  /\ mon' = [mon EXCEPT !.pc = "idle",
                        !.cleanup_triggered = mon.percent > warning_threshold]
  /\ chat' = IF mon.caller = "ultra_chat"
             THEN [chat EXCEPT !.pc = "overloaded"] ELSE chat
  /\ UNCHANGED <<memory_history, mtime, cacheVars, convVars, nonMonVars>>

\* the exception leaves monitor_memory; ultra_chat answers it with the
\* status 500 (lines 1353-1380)
monitor_raise ==
  /\ mon.pc = "raise"
  /\ mon' = [mon EXCEPT !.pc = "idle"]
  /\ chat' = IF mon.caller = "ultra_chat"
             THEN [chat EXCEPT !.pc = "idle", !.status = 500,
                               !.answer = "Server error"]
             ELSE chat
  /\ UNCHANGED <<memory_history, mtime, cacheVars, convVars, nonMonVars>>

\* time passes
MTick ==
  /\ mtime < MaxMTime
  /\ mtime' = mtime + TickSeconds
  /\ UNCHANGED <<memory_history, mon, chat, cacheVars, convVars, nonMonVars>>

\* ultra_health: memory_stats = memory_manager.monitor_memory()
ultra_health(p) ==
  /\ chat.pc = "idle"
  /\ monitor_memory("ultra_health", p)
  /\ UNCHANGED <<chat, cacheVars, convVars, nonMonVars>>

\* the steps of a monitor_memory call after its first
MonitorStep ==
  \/ gentle_cleanup_gc
  \/ gentle_cleanup_clear
  \/ emergency_cleanup_clear
  \/ emergency_cleanup_store
  \/ monitor_return
  \/ monitor_raise

(***************************************************************************)
(* ultra_chat, a request at a time: the question, monitor_memory, the      *)
(* overload check, the subject content through the cache, and the model.   *)
(* The calls to the Node.js backend and to the model are the caller's      *)
(* inputs.                                                                 *)
(***************************************************************************)
\* cache_key of fetch_subject_content_by_name and of fetch_subject_content
NameKey == "a"
IdKey == "b"
\* the content built from the resources, and ""
Content == Str(1, 12)
Empty == Str(0, 0)

\* the samples monitor_memory would keep now
Samples == Len(Retained(memory_history, mtime))

\* thread of ultra_chat goes to pc
ChatGoto(pc) == chat' = [chat EXCEPT !.pc = pc]

\* ultra_chat: the request is parsed; 400 if it has no question
ultra_chat(question, use_resources) ==
  /\ chat.pc = "idle"
  /\ mon.pc = "idle"
  /\ chat' = IF question
             THEN [ChatIdle EXCEPT !.pc = "monitor_memory",
                                   !.question = TRUE,
                                   !.use_resources = use_resources]
             ELSE [ChatIdle EXCEPT !.status = 400,
                                   !.answer = "No question provided"]
  /\ UNCHANGED <<memory_history, mtime, mon, cacheVars, convVars, nonMonVars>>

\* memory_stats = memory_manager.monitor_memory()
chat_monitor_memory(p) ==
  /\ chat.pc = "monitor_memory"
  /\ monitor_memory("ultra_chat", p)
  /\ ChatGoto("in monitor_memory")
  /\ UNCHANGED <<cacheVars, convVars, nonMonVars>>

\* if memory_stats["current_percent"] > 90: 503
chat_overloaded ==
  /\ chat.pc = "overloaded"
  /\ chat' = IF mon.percent > OVERLOADED
             THEN [chat EXCEPT !.pc = "idle", !.status = 503,
                               !.answer = "Server temporarily overloaded"]
             ELSE [chat EXCEPT !.pc = IF chat.use_resources
                                      THEN "by_name_get" ELSE "generate"]
  /\ UNCHANGED <<memory_history, mtime, mon, cacheVars, convVars, nonMonVars>>

\* fetch_subject_content_by_name is called on its own: without
\* use_resources it returns "" at once
fetch_subject_content_by_name(use_resources) ==
  /\ chat.pc = "idle"
  /\ mon.pc = "idle"
  /\ chat' = IF use_resources
             THEN [ChatIdle EXCEPT !.pc = "by_name_get", !.question = TRUE,
                                   !.use_resources = TRUE]
             ELSE [ChatIdle EXCEPT !.pc = "generate", !.question = TRUE,
                                   !.content = Empty]
  /\ UNCHANGED <<memory_history, mtime, mon, cacheVars, convVars, nonMonVars>>

\* a lookup that tests the cached content for truth, not against None
by_name_get_truthy ==
  /\ chat.pc = "by_name_get"
  /\ CanGet(NameKey, MaxHits)
  /\ get(NameKey)
  /\ chat' = IF last'.val = None \/ last'.val = Empty
             THEN [chat EXCEPT !.pc = "subjects"]
             ELSE [chat EXCEPT !.pc = "generate", !.content = last'.val]
  /\ UNCHANGED <<memory_history, mtime, mon>>

\* fetch_subject_content_by_name: content_cache.get(cache_key)
by_name_get ==
  /\ chat.pc = "by_name_get"
  /\ CanGet(NameKey, MaxHits)
  /\ get(NameKey)
  /\ chat' = IF last'.val = None
             THEN [chat EXCEPT !.pc = "subjects"]
             ELSE [chat EXCEPT !.pc = "generate", !.content = last'.val]
  /\ UNCHANGED <<memory_history, mtime, mon>>

\* the subjects are fetched and the subject is among them
by_name_found ==
  /\ chat.pc = "subjects"
  /\ ChatGoto("by_id_get")
  /\ UNCHANGED <<memory_history, mtime, mon, cacheVars, convVars, nonMonVars>>

\* the request fails or the subject is not found:
\* content_cache.set(cache_key, "")
by_name_not_found ==
  /\ chat.pc = "subjects"
  /\ set(NameKey, Empty, 0)
  /\ chat' = [chat EXCEPT !.pc = "generate", !.content = Empty]
  /\ UNCHANGED <<memory_history, mtime, mon>>

\* fetch_subject_content: content_cache.get(cache_key)
by_id_get ==
  /\ chat.pc = "by_id_get"
  /\ CanGet(IdKey, MaxHits)
  /\ get(IdKey)
  /\ chat' = IF last'.val = None
             THEN [chat EXCEPT !.pc = "by_id_set"]
             ELSE [chat EXCEPT !.pc = "by_name_set", !.content = last'.val]
  /\ UNCHANGED <<memory_history, mtime, mon>>

\* fetch_subject_content: content_cache.set(cache_key, result), or "" when
\* the request fails or there are no resources
by_id_set(result) ==
  /\ chat.pc = "by_id_set"
  /\ set(IdKey, result, 0)
  /\ chat' = [chat EXCEPT !.pc = "by_name_set", !.content = result]
  /\ UNCHANGED <<memory_history, mtime, mon>>

\* fetch_subject_content_by_name: content_cache.set(cache_key, content)
by_name_set ==
  /\ chat.pc = "by_name_set"
  /\ set(NameKey, chat.content, 0)
  /\ ChatGoto("generate")
  /\ UNCHANGED <<memory_history, mtime, mon>>

\* what model_manager.generate_response does for a request: no model is
\* loaded and it is not called, it raises, or it returns the response
Outcomes == {"no model", "raises", "returns"}

\* the answers of lines 1325 and 1328
TechnicalDifficulties ==
  "I'm experiencing technical difficulties. Please try again."
NotAvailable == "AI model is not available. Please try again later."

\* the answer ultra_chat gives for an outcome
answer_of(outcome) ==
  CASE outcome = "no model" -> NotAvailable
    [] outcome = "raises" -> TechnicalDifficulties
    [] OTHER -> "the model's answer"

\* an ultra_chat whose try of lines 1312-1325 has no except clause: the
\* exception reaches the handler of line 1353, which answers 500
chat_generate_uncaught(outcome) ==
  /\ chat.pc = "generate"
  /\ chat' = [chat EXCEPT
                !.pc = "idle",
                !.status = IF outcome = "raises" THEN 500 ELSE 200,
                !.answer = IF outcome = "raises"
                           THEN "Server error" ELSE answer_of(outcome),
                !.generated = IF outcome = "no model" THEN @ ELSE @ + 1,
                !.outcome = outcome]
  /\ UNCHANGED <<memory_history, mtime, mon, cacheVars, convVars, nonMonVars>>

\* the model (lines 1307-1328): none loaded, generate_response raises, or
\* it answers; the response is returned with the status 200
chat_generate(outcome) ==
  /\ chat.pc = "generate"
  /\ chat' = [chat EXCEPT
                !.pc = "idle", !.status = 200, !.answer = answer_of(outcome),
                !.generated = IF outcome = "no model" THEN @ ELSE @ + 1,
                !.outcome = outcome]
  /\ UNCHANGED <<memory_history, mtime, mon, cacheVars, convVars, nonMonVars>>

\* Chat requests one after the other, while time passes.
NextChat ==
  \/ \E question, use_resources \in BOOLEAN :
       ultra_chat(question, use_resources)
  \/ \E p \in Percents : Samples < FewSamples /\ chat_monitor_memory(p)
  \/ MonitorStep
  \/ chat_overloaded
  \/ by_name_get /\ UNCHANGED written
  \/ by_name_found
  \/ by_name_not_found /\ UNCHANGED written
  \/ by_id_get /\ UNCHANGED written
  \/ \E result \in {Empty, Content} : by_id_set(result) /\ UNCHANGED written
  \/ by_name_set /\ UNCHANGED written
  \/ \E outcome \in Outcomes : chat_generate(outcome)
  \/ MTick

\* the cache_key of the lookup of another subject
OtherKey == "c"

\* The lookups of the subject content one after the other, with the
\* history of the cache recorded, while time passes, a memory cleanup
\* clears the cache and the lookup of another subject writes its key.
NextFetch ==
  \/ \E use_resources \in BOOLEAN :
       fetch_subject_content_by_name(use_resources)
  \/ by_name_get /\ Forget
  \/ by_name_found
  \/ by_name_not_found /\ Remember(NameKey, Empty, 0)
  \/ by_id_get /\ Forget
  \/ \E result \in {Empty, Content} :
       by_id_set(result) /\ Remember(IdKey, result, 0)
  \/ by_name_set /\ Remember(NameKey, chat.content, 0)
  \/ \E outcome \in Outcomes : chat_generate(outcome)
  \/ clear /\ Forget /\ UNCHANGED monVars
  \/ \E v \in Values :
       set(OtherKey, v, 0) /\ Remember(OtherKey, v, 0) /\ UNCHANGED monVars
  \/ Tick /\ UNCHANGED <<written, monVars>>

\* Chat requests while another caller of the store opens sessions, up to
\* max_conversations of them.
NextChatStore ==
  \/ NextChat
  \/ /\ opened < max_conversations
     /\ add_exchange(opened + 1, LongExchange)
     /\ Open(opened + 1)
     /\ UNCHANGED <<clast, monVars>>

\* The memory manager alone, called by ultra_health, with up to MaxSamples
\* samples in its history.
NextTrend ==
  \/ \E p \in Percents :
       Samples < MaxSamples /\ ultra_health(p)
  \/ MonitorStep
  \/ MTick

\* The memory manager with callbacks that may raise.
NextCallbacks ==
  \/ \E p \in Percents :
       Samples < FewSamples /\ ultra_health(p)
  \/ MonitorStep
  \/ gentle_cleanup_raises
  \/ MTick

\* The memory manager with a cache that is written and a store that gets
\* sessions between the monitor_memory calls.
NextMonitor ==
  \/ \E p \in Percents :
       Samples < FewSamples /\ ultra_health(p)
  \/ MonitorStep
  \/ MTick
  \/ \E k \in Keys, v \in LockValues :
       /\ mon.pc = "idle"
       /\ set(k, v, 0)
       /\ UNCHANGED <<written, monVars>>
  \/ \E s \in Sessions :
       /\ mon.pc = "idle"
       /\ s \notin DOMAIN conversations
       /\ add_exchange(s, LongExchange)
       /\ Open(s)
       /\ UNCHANGED <<clast, monVars>>

(***************************************************************************)
(* The threads of the server and the three locks.  Flask serves each       *)
(* request in a thread of its own (threaded=True); the store's             *)
(* cleanup_thread runs _background_cleanup and the batch processor's       *)
(* processor_thread runs _process_batches.  A thread's work is the         *)
(* sequence of with self._lock blocks it enters and leaves, in the order   *)
(* of the code; what a method does to the data under its lock is in the    *)
(* specifications of the cache and of the store.                           *)
(***************************************************************************)
Locks == {"content_cache", "conversation_state", "model_manager"}
RequestThreads == {"request1", "request2"}
ServerThreads == RequestThreads \cup {"cleanup_thread", "processor_thread"}

ThreadIdle == [todo |-> <<>>, inside |-> <<>>]

InitThreads ==
  /\ owner = [o \in Locks |-> ""]
  /\ tth = [t \in ServerThreads |-> ThreadIdle]

\* entering and leaving the with self._lock block of a method of object o
enter(o, method) == [op |-> "acquire", obj |-> o, method |-> method]
leave(o, method) == [op |-> "release", obj |-> o, method |-> method]
\* a call of a method that runs under its object's lock from its first
\* statement to its return
locked(o, method) == <<enter(o, method), leave(o, method)>>
\* a step that takes no lock
unlocked(method) == [op |-> "step", obj |-> "", method |-> method]

\* _gentle_cleanup: gc.collect() and the callbacks, of which
\* lambda: content_cache.clear() takes a lock
gentle_cleanup_calls == locked("content_cache", "clear")

\* an _emergency_cleanup that calls emergency_cleanup from inside the
\* cache's lock
emergency_cleanup_calls_nested ==
  gentle_cleanup_calls
    \o <<enter("content_cache", "clear"),
         enter("conversation_state", "emergency_cleanup"),
         leave("conversation_state", "emergency_cleanup"),
         leave("content_cache", "clear")>>
\* _emergency_cleanup: _gentle_cleanup(), content_cache.clear(),
\* conversation_state.emergency_cleanup()
emergency_cleanup_calls ==
  gentle_cleanup_calls
    \o locked("content_cache", "clear")
    \o locked("conversation_state", "emergency_cleanup")

\* memory.percent as monitor_memory and ultra_chat see it: at most the
\* warning threshold, above it, above the critical threshold, above 90
Levels == {"low", "warning", "critical", "overloaded"}

\* monitor_memory at a level
monitor_memory_calls(level) ==
  CASE level = "low" -> <<>>
    [] level = "warning" -> gentle_cleanup_calls
    [] OTHER -> emergency_cleanup_calls

\* fetch_subject_content_by_name: not called, a hit, a miss and a request
\* that fails, a miss and fetch_subject_content (itself a miss, then set)
Fetches == {"none", "hit", "failed", "fetched"}
fetch_calls(f) ==
  CASE f = "none" -> <<>>
    [] f = "hit" -> locked("content_cache", "get")
    [] f = "failed" -> locked("content_cache", "get")
                         \o locked("content_cache", "set")
    [] OTHER -> locked("content_cache", "get")
                  \o locked("content_cache", "get")
                  \o locked("content_cache", "set")
                  \o locked("content_cache", "set")

\* ultra_chat: monitor_memory, the 503 above 90 %, the subject content,
\* generate_response if a model is loaded, and content_cache.get_stats()
\* for the metadata if there is subject content
ultra_chat_calls(level, f, loaded) ==
  monitor_memory_calls(level)
    \o IF level = "overloaded"
       THEN <<>>
       ELSE fetch_calls(f)
              \o (IF loaded
                  THEN locked("model_manager", "generate_response")
                  ELSE <<>>)
              \o (IF f \in {"hit", "fetched"}
                  THEN locked("content_cache", "get_stats")
                  ELSE <<>>)

\* ultra_health: monitor_memory, content_cache.get_stats(),
\* model_manager.get_stats()
ultra_health_calls(level) ==
  monitor_memory_calls(level)
    \o locked("content_cache", "get_stats")
    \o locked("model_manager", "get_stats")

\* _background_cleanup, once round its loop: the sleep, then
\* _cleanup_if_needed under the store's lock
background_cleanup_calls ==
  <<unlocked("time.sleep")>>
    \o locked("conversation_state", "_cleanup_if_needed")

\* _process_batches, once round its loop: _collect_batch waits on the
\* queue; a request it returns goes through _process_single_request, which
\* makes up its result without the model
process_batches_calls(got) ==
  <<unlocked("queue.get")>>
    \o IF got THEN <<unlocked("_process_single_request")>> ELSE <<>>

\* the thread t starts on its work
start_thread(t, work) ==
  /\ tth[t].todo = <<>>
  /\ work # <<>>
  /\ tth' = [tth EXCEPT ![t].todo = work]
  /\ UNCHANGED <<owner, nonThreadVars>>

\* with self._lock, an RLock: it is taken when no thread holds it (no
\* thread takes a lock it holds: no method with a with block calls another)
rlock_can_acquire_always(t, o) == TRUE
rlock_can_acquire(t, o) == owner[o] = ""

\* the next thing thread t does
NextOp(t) == Head(tth[t].todo)

\* with self._lock: thread t enters the block
thread_acquire(t) ==
  /\ tth[t].todo # <<>>
  /\ NextOp(t).op = "acquire"
  /\ rlock_can_acquire(t, NextOp(t).obj)
  /\ owner' = [owner EXCEPT ![NextOp(t).obj] = t]
  /\ tth' = [tth EXCEPT ![t].todo = Tail(@),
                        ![t].inside = Append(@, NextOp(t).method)]
  /\ UNCHANGED nonThreadVars

\* thread t leaves the block, by a return or by an exception
thread_release(t) ==
  /\ tth[t].todo # <<>>
  /\ NextOp(t).op = "release"
  /\ owner' = [owner EXCEPT ![NextOp(t).obj] = ""]
  /\ tth' = [tth EXCEPT ![t].todo = Tail(@),
                        ![t].inside = SubSeq(@, 1, Len(@) - 1)]
  /\ UNCHANGED nonThreadVars

\* thread t has slept, has waited on the queue, or has processed a request
thread_step(t) ==
  /\ tth[t].todo # <<>>
  /\ NextOp(t).op = "step"
  /\ tth' = [tth EXCEPT ![t].todo = Tail(@)]
  /\ UNCHANGED <<owner, nonThreadVars>>

\* Requests served concurrently, the sweep and the collector.
NextThreads ==
  \/ \E t \in RequestThreads, level \in Levels, f \in Fetches,
        loaded \in BOOLEAN :
       start_thread(t, ultra_chat_calls(level, f, loaded))
  \/ \E t \in RequestThreads, level \in Levels :
       start_thread(t, ultra_health_calls(level))
  \/ start_thread("cleanup_thread", background_cleanup_calls)
  \/ \E got \in BOOLEAN :
       start_thread("processor_thread", process_batches_calls(got))
  \/ \E t \in ServerThreads :
       \/ thread_acquire(t)
       \/ thread_release(t)
       \/ thread_step(t)

Init ==
  /\ InitSched /\ InitCache /\ InitLock /\ InitConv /\ InitStoreLock
  /\ InitMon /\ InitThreads

SpecThreads == Init /\ [][NextThreads]_vars

SpecStoreLock == Init /\ [][NextStoreLock]_vars

SpecConv == Init /\ [][NextConv]_vars
SpecStore == Init /\ [][NextStore]_vars
SpecStoreHist == Init /\ [][NextStoreHist]_vars
SpecCaller == Init /\ [][NextCaller]_vars

SpecTrend == Init /\ [][NextTrend]_vars
SpecMonitor == Init /\ [][NextMonitor]_vars
SpecCallbacks == Init /\ [][NextCallbacks]_vars
SpecChat == Init /\ [][NextChat]_vars
SpecChatStore == Init /\ [][NextChatStore]_vars
SpecFetch == Init /\ [][NextFetch]_vars

SpecLock == Init /\ [][NextLock]_vars

SpecCache == Init /\ [][NextCache]_vars
SpecCacheHist == Init /\ [][NextCacheHist]_vars

(***************************************************************************)
(* The scheduler's specifications.  Under SpecSched the request threads    *)
(* call submit_request one after the other (each call still interleaves    *)
(* with the collector and with cancellations); under SpecRace they call it *)
(* concurrently.                                                           *)
(***************************************************************************)
SubmitStep(r) ==
  \/ submit_request_put(r)
  \/ submit_request_check(r)
  \/ start_processor_alive(r)
  \/ start_processor_set(r)
  \/ start_processor_new(r)
  \/ start_processor_start(r)

CollectorStep(t) ==
  \/ collect_batch_get(t)
  \/ collect_batch_empty(t)
  \/ collect_batch_return(t)
  \/ process_role_group_check(t)
  \/ \E ok \in BOOLEAN : process_single_request(t, ok)
  \/ process_batch_done(t)
  \/ handler_check(t)
  \/ handler_set_exception(t)
  \/ handler_done(t)
  \/ process_batches_log_error(t)

NextSched ==
  \/ \E r \in Requests : InFlight = {} /\ CreateRequest(r)
  \/ \E r \in Requests : SubmitStep(r)
  \/ \E r \in Requests : Cancel(r)
  \/ \E t \in Threads : CollectorStep(t)

NextRace ==
  \/ \E r \in Requests : CreateRequest(r)
  \/ \E r \in Requests : SubmitStep(r)
  \/ \E r \in Requests : Cancel(r)
  \/ \E t \in Threads : CollectorStep(t)

SpecSched == Init /\ [][NextSched]_vars

SpecRace == Init /\ [][NextRace]_vars

(***************************************************************************)
(* SpecLive: a scheduler built with a batch size of batch_size + 1 and as  *)
(* many requests, submitted one after the other, so that one batch can     *)
(* hold a request behind two others.  The request threads go on inside     *)
(* submit_request and the collector threads go on inside _process_batches  *)
(* (weak fairness: each is a running thread, and every step of theirs      *)
(* returns); nothing makes a caller create a request or cancel one.  The    *)
(* requests are all students' requests of NORMAL priority.                 *)
(***************************************************************************)
LiveRequests == 1..(batch_size + 1)

InitLive ==
  /\ InitProcessor(LiveRequests, batch_size + 1)
  /\ InitCache /\ InitLock /\ InitConv /\ InitStoreLock /\ InitMon
  /\ InitThreads

\* the request threads inside submit_request
LiveInFlight ==
  {r \in LiveRequests : spc[r] \notin {"idle", "return", "RuntimeError"}}

NextLive ==
  \/ \E r \in LiveRequests :
       /\ LiveInFlight = {}
       /\ CreateRequest(r)
       /\ rprio'[r] = NORMAL
       /\ rrole'[r] = "student"
  \/ \E r \in LiveRequests : SubmitStep(r)
  \/ \E r \in LiveRequests : Cancel(r)
  \/ \E t \in LiveRequests : CollectorStep(t)

LiveFairness ==
  \A r \in LiveRequests :
    /\ WF_vars(SubmitStep(r))
    /\ WF_vars(CollectorStep(r))

SpecLive == InitLive /\ [][NextLive]_vars /\ LiveFairness

(***************************************************************************)
(* Properties of the scheduler.                                            *)
(***************************************************************************)
InBatch(t) == {batch[t][i] : i \in 1..Len(batch[t])}

\* thread t has handed its batch to _process_batch and is not done with it
Dispatching(t) == cpc[t] \in {"dispatch", "process", "handler", "handler_set"}

\* thread t is about to leave _process_batch (normally, through its handler,
\* or by an exception)
BatchEnd(t) ==
  \/ cpc[t] = "dispatch" /\ pos[t] > Len(batch[t])
  \/ HandlerFinished(t)
  \/ cpc[t] = "log_error"

\* request r's future holds the outcome of processing r
OwnOutcome(r) ==
  /\ fut[r].state = "FINISHED"
  /\ fut[r].val \in {Result(r), ProcError(r)}

\* C1: when the processing of a request of a batch raised, no other future
\* holds that failure, and at the end of the batch every other request of the
\* batch (whose caller did not cancel it) has been processed and its future
\* holds its own outcome.
C1_FailureIsolation ==
  \A t \in Threads : \A r \in InBatch(t) :
    <<r, FALSE>> \in processed =>
      /\ \A q \in Requests \ {r} : fut[q].val # ProcError(r)
      /\ BatchEnd(t) =>
           \A q \in InBatch(t) \ {r} :
             ~cancelled(fut[q]) =>
               (\E ok \in BOOLEAN : <<q, ok>> \in processed) /\ OwnOutcome(q)

C3_ToleratesCancel ==
  /\ \A t \in Threads : exc[t].kind # "InvalidStateError"
  /\ \A r \in Requests : fut[r].val.kind # "InvalidStateError"

C5_QueueOrder ==
  [][\A r \in queue \ queue' : \A o \in queue :
       /\ rprio[o] <= rprio[r]
       /\ rprio[o] = rprio[r] => timestamp(r) <= timestamp(o)]_vars

\* C5 witness: both orders decided a pop: of two queued requests the later,
\* higher-priority one was taken first, or of two of the same priority the
\* earlier one.
C5_Witness ==
  \E t \in Threads : \E r \in InBatch(t) : \E o \in queue :
    \/ rprio[r] > rprio[o] /\ timestamp(r) > timestamp(o)
    \/ rprio[r] = rprio[o] /\ timestamp(r) < timestamp(o)

C7_CancelledDiscarded ==
  \A r \in discarded :
    /\ \A t \in Threads : r \notin InBatch(t)
    /\ \A ok \in BOOLEAN : <<r, ok>> \notin processed
    /\ fut[r] = [state |-> "CANCELLED", val |-> NoVal]

\* C7 witness: a cancelled request was taken from the queue while another
\* request was collected.
C7_Witness ==
  \E r \in discarded : \E t \in Threads : batch[t] # <<>>

\* C8: a batch handed to _process_batch holds batch_size requests, or the
\* batch timeout has elapsed since its collection started.
C8_BatchWindow ==
  \A t \in Threads :
    Dispatching(t) => Len(batch[t]) = batch_size \/ elapsed[t] >= timeout

\* C9: at most one collector thread runs.
C9_OneCollector ==
  Cardinality({t \in Threads : is_alive(t)}) <= 1

(***************************************************************************)
(* Properties of the cache.                                                *)
(***************************************************************************)
\* the step is a call of get (Tick leaves `last` as it is, set and clear
\* write their own name)
GetStep == last'.op = "get" /\ now' = now

\* C10: a get of a key that is absent, or whose access time is more than ttl
\* in the past, returns None and leaves the key in none of the three dicts;
\* a get that returns a value found the key with an access time at most ttl
\* in the past.
C10_GetMiss ==
  [][GetStep =>
       LET k == last'.key IN
         /\ (k \notin DOMAIN cache \/ now - access_times[k] > ttl) =>
              /\ last'.val = None
              /\ k \notin DOMAIN cache'
              /\ k \notin DOMAIN access_times'
              /\ k \notin DOMAIN hit_counts'
         /\ last'.val # None =>
              k \in DOMAIN cache /\ now - access_times[k] <= ttl]_vars

\* C10 witness: a get found its key expired, returned None and removed it,
\* while another key stayed in the cache.
C10_Witness ==
  /\ last.op = "get" /\ last.path = "expired" /\ last.val = None
  /\ last.key \notin DOMAIN cache \cup DOMAIN access_times \cup DOMAIN hit_counts
  /\ DOMAIN cache # {}

\* C11: a get of key k issued more than ttl after the most recent set of k
\* returns None, whatever gets of k happened in between.
C11_NoExpiredRead ==
  [][GetStep =>
       LET k == last'.key IN
         (k \in DOMAIN written /\ now - written[k].at > ttl) =>
            last'.val = None]_vars

\* C12: a get of k issued at most ttl after the last set(k, v), with no
\* eviction of k and no clear since, returns v, whether v was stored
\* compressed or not; and within that time a key is removed by nothing but
\* _evict_lru and clear.
C12_RoundTrip ==
  [][/\ GetStep =>
          LET k == last'.key IN
            (k \in DOMAIN written /\ now - written[k].at <= ttl) =>
               last'.val = written[k].val
     /\ \A k \in DOMAIN written :
          (k \notin DOMAIN written' /\ now - written[k].at <= ttl) =>
             last'.op = "clear" \/ \E e \in last'.evicted : e.key = k]_vars

\* C12 witness: a value above the compression threshold was stored
\* compressed and a get, a second later, has returned it.
C12_Witness ==
  /\ last.op = "get" /\ last.path = "hit"
  /\ last.key \in DOMAIN written
  /\ last.val = written[last.key].val
  /\ last.val.len > COMPRESS_ABOVE
  /\ cache[last.key].compressed
  /\ written[last.key].at < now
  /\ access_times[last.key] = now

\* the step is a call of set
SetStep == last'.op = "set" /\ now' = now
\* the keys of the entries that are expired when set is called, and of the
\* others
Expired == {j \in DOMAIN cache : now - access_times[j] > ttl}
Alive == DOMAIN cache \ Expired
\* set is called with a new key and the cache at capacity
AtCapacity(k) == Cardinality(Alive) >= max_size /\ k \notin Alive
\* the keys set has evicted
Evicted == {e.key : e \in last'.evicted}

\* C13: set removes every expired entry; then, if the cache is at capacity
\* and the key is new, it evicts exactly one entry, one with the oldest
\* access time and, among those, the lowest hit count; otherwise it evicts
\* nothing.  The unexpired entries that are not evicted stay, and the key is
\* stored.
C13_PurgeThenEvict ==
  [][SetStep =>
       LET k == last'.key IN
         /\ Expired \cap (DOMAIN cache' \ {k}) = {}
         /\ Evicted \subseteq Alive
         /\ DOMAIN cache' = (Alive \ Evicted) \cup {k}
         /\ IF AtCapacity(k)
            THEN \E e \in Alive :
                   /\ Evicted = {e}
                   /\ \A j \in Alive :
                        \/ access_times[e] < access_times[j]
                        \/ /\ access_times[e] = access_times[j]
                           /\ hits_of(e) <= hits_of(j)
            ELSE Evicted = {}]_vars

\* C13 witness: max_size = 2; set a, set b, get a, set c: b, accessed when
\* a was and never hit, is evicted; a and c are present.
C13_Witness ==
  /\ max_size = 2
  /\ last.op = "set" /\ last.key = "c"
  /\ DOMAIN cache = {"a", "c"}
  /\ hit_counts["a"] = 1
  /\ last.evicted = {[key |-> "b", at |-> access_times["a"], hits |-> 0]}

\* C14 as stated: the entry evicted has the lowest hit count and, among the
\* entries with that hit count, the oldest access time.
C14_LowestHitsFirst ==
  [][(SetStep /\ AtCapacity(last'.key)) =>
       \E e \in Alive :
         /\ Evicted = {e}
         /\ \A j \in Alive :
              \/ hits_of(e) < hits_of(j)
              \/ hits_of(e) = hits_of(j) /\ access_times[e] <= access_times[j]]_vars

\* C14, amended: inserting a new key into a cache at capacity evicts exactly
\* one entry; no entry left has an older access time, and none with the same
\* access time has a lower hit count (the access time selects the
\* candidates, the hit count picks among them).
C14_OldestAccessFirst ==
  [][(SetStep /\ AtCapacity(last'.key)) =>
       /\ Cardinality(last'.evicted) = 1
       /\ Cardinality(DOMAIN cache') = Cardinality(Alive)
       /\ \A e \in last'.evicted :
            /\ e.key \notin DOMAIN cache'
            /\ e.at = access_times[e.key] /\ e.hits = hits_of(e.key)
            /\ \A j \in DOMAIN cache' \ {last'.key} :
                 /\ access_times[j] >= e.at
                 /\ access_times[j] = e.at => hits_of(j) >= e.hits]_vars

\* C14 witness: the entry evicted had more hits than an entry that stayed,
\* which was accessed later.
C14_Witness ==
  /\ last.op = "set"
  /\ \E e \in last.evicted :
       \E j \in DOMAIN cache \ {last.key} :
         hit_counts[j] < e.hits /\ access_times[j] > e.at

\* C16: at most one thread is inside a cache operation at a time (every
\* thread that has started a call holds the lock), and whenever no call is
\* in progress the value map, the access-time table and the hit-count table
\* have the same keys.
C16_Atomic ==
  /\ \A t \in CacheThreads : th[t].pc # "idle" => lock = t
  /\ lock = "" =>
       /\ DOMAIN cache = DOMAIN access_times
       /\ DOMAIN cache = DOMAIN hit_counts

\* C16 witness: a thread is in the middle of a set that evicts: the victim
\* has left the value map and not yet the other two tables, and the other
\* thread cannot start a call.
C16_Witness ==
  \E t \in CacheThreads :
    /\ lock = t
    /\ th[t].pc = "remove_access_time" /\ th[t].after = "set_cache"
    /\ DOMAIN cache # DOMAIN access_times
    /\ \A u \in CacheThreads \ {t} : th[u].pc = "idle" /\ ~can_acquire(u)

\* the bucket limit for the messages msgs, from their average length
LimitFor(msgs) ==
  max_messages([message_count |-> Len(msgs),
                total_chars |-> total_length(msgs)])

\* C17: the history of every session has at most the number of messages
\* that _intelligent_truncate allows for the average length of its
\* messages, and an even number of them.
C17_WithinBucket ==
  \A s \in DOMAIN conversations :
    /\ Len(conversations[s]) <= LimitFor(conversations[s])
    /\ Len(conversations[s]) % 2 = 0

\* messages alternate user, assistant, from a user message on, and each
\* assistant message follows the user message of its own exchange
PairAligned(msgs) ==
  /\ Len(msgs) % 2 = 0
  /\ \A i \in 1..Len(msgs) :
       IF i % 2 = 1
       THEN msgs[i].role = "user" /\ msgs[i + 1].ex = msgs[i].ex
       ELSE msgs[i].role = "assistant"

\* a is what is left of b after messages were removed from its front
IsSuffix(a, b) == Len(a) <= Len(b) /\ a = LastMessages(b, Len(a))

\* the step is an add_exchange for session s: it leaves the session with
\* another, non-empty history
AddStep(s) ==
  /\ s \in DOMAIN conversations'
  /\ conversations'[s] # <<>>
  /\ s \in DOMAIN conversations => conversations'[s] # conversations[s]
HistoryOf(s) == IF s \in DOMAIN conversations THEN conversations[s] ELSE <<>>

\* C18: after every add_exchange the history is pair-aligned, ends with
\* the exchange added, and is a suffix of the history before with that
\* exchange appended.
C18_PairAlignedSuffix ==
  [][\A s \in Sessions :
       AddStep(s) =>
         LET after == conversations'[s] IN
           /\ PairAligned(after)
           /\ after[Len(after)].ex = next_exchange(HistoryOf(s))
           /\ IsSuffix(after, HistoryOf(s) \o LastMessages(after, 2))]_vars

\* C18 witness: a history has been truncated, of short and of long
\* messages: its first message is not the first message of the session.
C18_Witness ==
  /\ 1 \in DOMAIN conversations
  /\ conversations[1] # <<>>
  /\ conversations[1][1].ex > 1
  /\ \E i, j \in 1..Len(conversations[1]) :
       conversations[1][i].len # conversations[1][j].len

\* C19: for every stored session total_chars is the sum of the lengths of
\* its messages and message_count their number, and the conversations, the
\* access times and the statistics have the same session ids.
C19_Bookkeeping ==
  /\ DOMAIN conversations = DOMAIN last_access
  /\ DOMAIN conversations = DOMAIN conversation_stats
  /\ \A s \in DOMAIN conversations :
       /\ conversation_stats[s].total_chars = total_length(conversations[s])
       /\ conversation_stats[s].message_count = Len(conversations[s])

\* C19 witness: the first session's history has been truncated, and of the
\* 11 sessions opened the emergency cleanup has left 10.
C19_Witness ==
  /\ opened = KEEP_RECENT + 1
  /\ Cardinality(DOMAIN conversations) = KEEP_RECENT
  /\ 1 \in DOMAIN conversations
  /\ conversations[1] # <<>>
  /\ conversations[1][1].ex > 1
  /\ clock = 0

\* C15: an entry stored with a per-call ttl is expired for get exactly when
\* its age (the time since its last access) exceeds that per-call ttl.
C15_PerCallTtl ==
  [][GetStep =>
       LET k == last'.key IN
         k \in DOMAIN written =>
            (last'.val = None <=> now - access_times[k] > written[k].ttl)]_vars

\* the history h is made of whole exchanges in the order of their calls,
\* none missing between two of them
InCallOrder(h) ==
  /\ PairAligned(h)
  /\ \A i \in 1..Len(h) : i + 2 <= Len(h) => h[i + 2].ex = h[i].ex + 1

\* C20: add_exchange calls for one session run one at a time; each step
\* leaves the history as it is, cuts messages from its front, or appends
\* the two messages of the running call at its tail; and between calls the
\* history holds whole exchanges in the order the calls took the lock, up to
\* the last call.
C20_AppendOnly ==
  [][LET h == HistoryOf(TheSession)
         after == IF TheSession \in DOMAIN conversations'
                  THEN conversations'[TheSession] ELSE <<>>
     IN /\ \A t \in StoreThreads : sth'[t].pc # "idle" => store_lock' = t
        /\ \/ IsSuffix(after, h)
           \/ \E t \in StoreThreads :
                /\ store_lock = t
                /\ after = h \o <<Message("user", sth[t].e[1], sth[t].ex),
                                  Message("assistant", sth[t].e[2], sth[t].ex)>>
        /\ store_lock' = "" =>
             /\ InCallOrder(after)
             /\ calls' > 0 => /\ after # <<>>
                             /\ after[Len(after)].ex = calls']_vars

\* C20 witness: no call is running, the history has been truncated, holds
\* exchanges of both threads, and both threads are ready to call again.
C20_Witness ==
  /\ store_lock = ""
  /\ calls < MaxExchanges
  /\ TheSession \in DOMAIN conversations
  /\ conversations[TheSession] # <<>>
  /\ conversations[TheSession][1].ex > 1
  /\ \A t \in StoreThreads :
       \E i \in 1..Len(conversations[TheSession]) :
         conversations[TheSession][i].len = ThreadExchange(t)[1]

\* the step is a run of the sweep
SweepStep == clast'.op = "_background_cleanup" /\ clast' # clast

\* C21: a run of the sweep removes every session that was last accessed
\* more than max_age ago.
C21_SweepRemovesAged ==
  [][SweepStep => \A s \in aged : s \notin DOMAIN conversations']_vars

\* C22: after a run of the sweep at most max_conversations sessions are
\* stored.
C22_SweepWithinLimit ==
  [][SweepStep => Cardinality(DOMAIN conversations') <= max_conversations]_vars

\* the step is a run of emergency_cleanup
EmergencyStep == clast'.op = "emergency_cleanup" /\ clast' # clast

\* C23: emergency_cleanup leaves at most KEEP_RECENT sessions, each of them
\* accessed no earlier than any session it removes and with its history,
\* access time and statistics as before; it leaves a store of at most
\* KEEP_RECENT sessions as it is.
C23_KeepsMostRecent ==
  [][EmergencyStep =>
       LET kept == DOMAIN conversations'
           removed == DOMAIN conversations \ kept
       IN /\ kept \subseteq DOMAIN conversations
          /\ Cardinality(kept) <= KEEP_RECENT
          /\ \A k \in kept :
               /\ \A r \in removed : last_access[k] >= last_access[r]
               /\ conversations'[k] = conversations[k]
               /\ last_access'[k] = last_access[k]
               /\ conversation_stats'[k] = conversation_stats[k]
          /\ Cardinality(DOMAIN conversations) <= KEEP_RECENT =>
               storeVars' = storeVars]_vars

\* C23 witness: emergency_cleanup has removed a session and kept
\* KEEP_RECENT, among them the first one opened, which was read again later.
C23_Witness ==
  /\ clast.op = "emergency_cleanup"
  /\ clast.removed > 0
  /\ Cardinality(DOMAIN conversations) = KEEP_RECENT
  /\ 1 \in DOMAIN conversations
  /\ last_access[1] > 0

\* the step is a get_history for a session without exchanges
GetNewStep ==
  /\ clast'.op = "get_history"
  /\ clast' # clast
  /\ HistoryOf(clast'.s) = <<>>

\* C25: get_history for a session without exchanges returns an empty list
\* and leaves the set of stored sessions as it is.
C25_GetCreatesNothing ==
  [][GetNewStep =>
       /\ clast'.ret = <<>>
       /\ DOMAIN conversations' = DOMAIN conversations]_vars

\* the step is a change the caller makes to the list get_history returned
CallerStep == clast'.op = "caller" /\ clast' # clast

\* C24: no change the caller makes to the returned list or to a message in
\* it changes the stored conversations, which is what the next get_history
\* returns.
C24_DefensiveCopy ==
  [][CallerStep => conversations' = conversations]_vars

\* the step ends a monitor_memory call, by a return or by an exception
MonitorEnds == mon.pc # "idle" /\ mon'.pc = "idle"

\* C26: a monitor_memory call with a percentage above the warning and not
\* above the critical threshold has run each registered callback once, has
\* not called emergency_cleanup and returns cleanup_triggered = True; a call
\* with a percentage not above the warning threshold has run no callback and
\* returns cleanup_triggered = False.
C26_GentleAtWarning ==
  [][MonitorEnds =>
       /\ (/\ mon.percent > warning_threshold
           /\ mon.percent <= critical_threshold) =>
            /\ mon'.ran = cleanup_callbacks
            /\ mon'.emergency = 0
            /\ mon'.cleanup_triggered
       /\ mon.percent <= warning_threshold =>
            /\ mon'.ran = <<>>
            /\ ~mon'.cleanup_triggered]_vars

\* C27: a monitor_memory call with a percentage above the critical
\* threshold has run each registered callback, content_cache.clear and
\* emergency_cleanup; it returns cleanup_triggered = True and leaves the
\* cache empty and at most KEEP_RECENT sessions.
C27_EmergencyAtCritical ==
  [][(MonitorEnds /\ mon.percent > critical_threshold) =>
       /\ mon'.ran = cleanup_callbacks
       /\ mon'.cleared = 1
       /\ mon'.emergency = 1
       /\ mon'.cleanup_triggered
       /\ cache' = <<>>
       /\ Cardinality(DOMAIN conversations') <= KEEP_RECENT]_vars

\* C28: every monitor_memory call returns one of the three trends.
C28_TrendNeverFails ==
  [][MonitorEnds =>
       mon'.trend \in {"increasing", "decreasing", "stable"}]_vars

\* the step ends a chat request
ChatEnds == chat.pc # "idle" /\ chat'.pc = "idle"

\* C29: a chat request whose monitor_memory call returned a percentage above
\* the memory manager's critical threshold ends with the status 503 and
\* without a call of the model.
C29_FailFastAboveCritical ==
  [][(/\ ChatEnds
      /\ mon.caller = "ultra_chat"
      /\ mon.raised = ""
      /\ mon.percent > critical_threshold) =>
       /\ chat'.status = 503
       /\ chat'.generated = 0]_vars

\* C30: when a chat request ends with the model's answer, a session of the
\* store holds messages (no other caller of the store runs here).
C30_ExchangeStored ==
  [][(ChatEnds /\ chat'.answer = "the model's answer") =>
       \E s \in DOMAIN conversations' : conversations'[s] # <<>>]_vars

\* the step ends a chat request whose generate_response call raised
GenerationFails == ChatEnds /\ chat'.outcome = "raises"

Generating ==
  {t \in ServerThreads :
     \E i \in 1..Len(tth[t].inside) : tth[t].inside[i] = "generate_response"}

\* thread t is about to enter a with block whose lock it cannot take
Blocked(t) ==
  /\ tth[t].todo # <<>>
  /\ NextOp(t).op = "acquire"
  /\ ~rlock_can_acquire(t, NextOp(t).obj)

\* thread t is at the method
At(t, method) == tth[t].todo # <<>> /\ NextOp(t).method = method

\* C32: at most one thread is inside generate_response, where the model is
\* called, at any time, whatever the other requests and the collector do.
C32_OneGenerate == Cardinality(Generating) <= 1

\* C32 witness: a request is inside generate_response, the other one waits
\* for the model's lock and the collector is processing a request.
C32_Witness ==
  /\ Generating = {"request1"}
  /\ Blocked("request2")
  /\ At("request2", "generate_response")
  /\ At("processor_thread", "_process_single_request")

\* the locks thread t holds
HeldBy(t) == {o \in Locks : owner[o] = t}

\* C34: no thread holds the cache's lock and the store's lock together; a
\* thread that waits on the queue holds neither; and a thread that waits
\* for a lock holds none, so that the holder of every lock a thread waits
\* for can go on and release it.
C34_NoLockSpans ==
  \A t \in ServerThreads :
    /\ ~({"content_cache", "conversation_state"} \subseteq HeldBy(t))
    /\ At(t, "queue.get") =>
         HeldBy(t) \cap {"content_cache", "conversation_state"} = {}
    /\ Blocked(t) =>
         /\ HeldBy(t) = {}
         /\ ~Blocked(owner[NextOp(t).obj])

\* C34 witness: a request thread is inside emergency_cleanup with the
\* store's lock while the sweep thread waits for it, the other request
\* thread is inside clear with the cache's lock, and the collector waits on
\* the queue.
C34_Witness ==
  /\ owner["conversation_state"] = "request1"
  /\ At("request1", "emergency_cleanup")
  /\ Blocked("cleanup_thread")
  /\ owner["content_cache"] = "request2"
  /\ At("request2", "clear")
  /\ At("processor_thread", "queue.get")

\* the cache holds the empty string under key k after the step
StoresEmpty(k) ==
  k \in DOMAIN cache' /\ decompress_if_needed(cache'[k]) = Empty

\* the empty string was stored under key k at most ttl ago and the key has
\* not been removed since
EmptyWritten(k) ==
  /\ k \in DOMAIN written
  /\ written[k].val = Empty
  /\ now - written[k].at <= ttl

\* C33: a lookup whose request to the Node.js backend fails or finds no
\* subject returns "" and leaves "" in the cache under its key, for the
\* key of the subject's name and for the key of its id; and a lookup of a
\* name under whose key "" was stored at most ttl ago (and that was not
\* cleared or evicted since) returns "" from the cache without a request to
\* the backend.
C33_NegativeCached ==
  [][/\ (chat.pc = "subjects" /\ chat'.pc = "generate") =>
          chat'.content = Empty /\ StoresEmpty(NameKey)
     /\ (chat.pc = "by_id_set" /\ chat'.pc = "by_name_set"
           /\ chat'.content = Empty) =>
          StoresEmpty(IdKey)
     /\ (chat.pc = "by_name_set" /\ chat'.pc = "generate"
           /\ chat.content = Empty) =>
          chat'.content = Empty /\ StoresEmpty(NameKey)
     /\ (chat.pc = "by_name_get" /\ chat'.pc # "by_name_get"
           /\ EmptyWritten(NameKey)) =>
          chat'.pc = "generate" /\ chat'.content = Empty]_vars

\* C33 witness: the lookup by name has returned "" from the cache, a second
\* after a failed lookup stored it.
C33_Witness ==
  /\ chat.pc = "generate"
  /\ chat.content = Empty
  /\ last.op = "get" /\ last.key = NameKey /\ last.path = "hit"
  /\ NameKey \in DOMAIN written
  /\ written[NameKey].val = Empty
  /\ written[NameKey].at < now

\* C37: the cache holds at most max_size entries, and its two side tables
\* hold the same keys, after every get, set (those of warm_cache included)
\* and clear.
C37_WithinCapacity ==
  /\ Cardinality(DOMAIN cache) <= max_size
  /\ DOMAIN access_times = DOMAIN cache
  /\ DOMAIN hit_counts = DOMAIN cache

\* C37 witness: a set to a full cache has evicted an entry and the cache is
\* full again.
C37_Witness ==
  /\ last.op = "set"
  /\ last.evicted # {}
  /\ last.key \in DOMAIN cache
  /\ Cardinality(DOMAIN cache) = max_size

\* the callbacks the monitor_memory call has called: those that returned
\* and those that raised
CalledBack(m) ==
  {m.ran[i] : i \in 1..Len(m.ran)} \cup {m.failed[i] : i \in 1..Len(m.failed)}

\* C38: a monitor_memory call in which a cleanup callback raised has called
\* every registered callback once, and ends with a return, not with the
\* exception.
C38_CallbacksIsolated ==
  [][(MonitorEnds /\ mon.failed # <<>>) =>
       /\ mon'.raised = ""
       /\ Len(mon'.ran) + Len(mon'.failed) = Len(cleanup_callbacks)
       /\ \A i \in 1..Len(cleanup_callbacks) :
            cleanup_callbacks[i] \in CalledBack(mon')]_vars

\* C38 witness: an emergency cleanup has returned; its first callback
\* raised and its second one ran.
C38_Witness ==
  /\ mon.pc = "idle"
  /\ mon.failed = <<cleanup_callbacks[1]>>
  /\ mon.ran = <<cleanup_callbacks[2]>>
  /\ mon.emergency = 1
  /\ mon.cleanup_triggered
  /\ mon.raised = ""

\* no request occurs twice in the sequence
NoDuplicates(q) ==
  \A i, j \in 1..Len(q) : q[i] = q[j] => i = j

C35_EventuallyResolved ==
  \A r \in LiveRequests : (spc[r] # "idle") ~> done(fut[r])

====
